---- MODULE Spec2Model ----
(***************************************************************************)
(* Super Kiro World: the particle engine of game.js (classes Particle and  *)
(* ParticleSystem), the score store (class ScorePersistence over           *)
(* localStorage), the image loader (class AssetManager) and the session    *)
(* logic of class Game: the start of the loop once the assets have         *)
(* settled, the player's trail, the sparkles of the obstacle areas, the    *)
(* end of a session, the confetti celebration with its timers, restart,    *)
(* the player's fall onto the platforms, the lives, the camera and the     *)
(* translations under which Game.render draws.  The render of the copy of  *)
(* ParticleSystem in test/game-classes.js is modelled next to the game's.  *)
(*                                                                         *)
(* Units.  Particle time (deltaTime, life, maxLife) is counted in          *)
(* hundredths of a millisecond, so that the game's frame step 16.67 ms is  *)
(* the integer 1667.  The wall clock (Date.now()) is counted in            *)
(* milliseconds.  alpha is counted in thousandths (1.0 is 1000).           *)
(* Velocities are counted in hundredths of a pixel per frame, positions    *)
(* in pixels; the fields of the player and the camera are counted in       *)
(* hundredths of a pixel.                                                  *)
(*                                                                         *)
(* A particle is a record.  Its field id stands for the identity of the    *)
(* JavaScript object.  Position, velocity, colour and size are assigned    *)
(* unconditionally by every spawn operation and are read by nothing that   *)
(* decides life, alpha, membership or order; they are not carried.  The    *)
(* optional fields twinkleSpeed and twinkleOffset are <<>> while the       *)
(* JavaScript property does not exist and <<v>> once it has been assigned. *)
(***************************************************************************)
EXTENDS Integers, Sequences, FiniteSets, TLC

VARIABLES
    particles,          \* ParticleSystem.particles: the active collection
    particlePool,       \* ParticleSystem.particlePool: a stack, top at the end
    maxParticles,       \* ParticleSystem.maxParticles
    performanceStats,   \* ParticleSystem.performanceStats
    now,                \* Date.now(), ms since the system was constructed
    nextId,             \* identity the next `new Particle` receives
    calls,              \* number of state-changing calls made so far
    lastOp,             \* the operation performed last, with its arguments
    drawn,              \* ids of the particles the last render drew, in order
    score,              \* Game.score
    lives,              \* Game.lives
    gameOver,           \* Game.gameOver
    levelComplete,      \* Game.levelComplete
    highScore,          \* Game.highScore
    confettiCelebration,\* Game.confettiCelebration: active and startTime
    debugFrameCount,    \* Game.debugFrameCount (0 while undefined)
    timers,             \* pending setTimeout callbacks, in the order set
    localStorage,       \* window.localStorage: availability and the item
    submitted,          \* the scores handed to saveHighScore so far
    images,             \* AssetManager.images: the asset stored under a key
    loadingStates,      \* AssetManager.loadingStates
    loads,              \* image loads in flight, in the order started
    assetsLoaded,       \* Game.assetsLoaded
    loopStarted,        \* Game.gameLoop has been started
    trailTimer,         \* Game.trailTimer, in 300ths (0 while undefined)
    sparkleTimers,      \* Game.sparkleTimers: per area, <<>> or <<frames>>
    playerInObstacleAreas,  \* Game.playerInObstacleAreas
    framesInside,       \* history: per area, the consecutive frames the
                        \* player has now spent inside it
    player,             \* Game.player: position and velocity in hundredths,
                        \* onGround; moved by the game's physics in
                        \* SpecCollision (elsewhere a frame is given the
                        \* player's place and the field keeps the start)
    camera,             \* Game.camera, in hundredths of a pixel; follows
                        \* the player in SpecDraw
    lifeCollected       \* Game.powerUps: `collected` of the power-up of
                        \* type 'life'

gameVars == <<score, lives, gameOver, levelComplete, highScore,
              confettiCelebration, debugFrameCount, timers, localStorage,
              submitted>>

assetVars == <<images, loadingStates, loads, assetsLoaded, loopStarted>>

playerVars == <<trailTimer, sparkleTimers, playerInObstacleAreas,
                framesInside, player, camera, lifeCollected>>

vars == <<particles, particlePool, maxParticles, performanceStats, now,
          nextId, calls, lastOp, drawn, score, lives, gameOver,
          levelComplete, highScore, confettiCelebration, debugFrameCount,
          timers, localStorage, submitted, images, loadingStates, loads,
          assetsLoaded, loopStarted, trailTimer, sparkleTimers,
          playerInObstacleAreas, framesInside, player, camera,
          lifeCollected>>

(***************************************************************************)
(* Bounds of the exploration.                                              *)
(***************************************************************************)
MaxCalls == 3
MaxSeconds == 1
MaxRenderLen == 3
MaxFrameSpawns == 2
MaxGovSeconds == 7
MaxGovFrames == 55
MaxScoreCalls == 4
MaxGameFrames == 6
MaxGameSeconds == 3
MaxGems == 1
MaxRestartFrame == 1
MaxStoreCalls == 3
MaxLoads == 3
MaxTrailFrames == 6
MaxSparkleFrames == 9
MaxCollisionFrames == 38
MaxKeyFrames == 7
MaxLoopTurns == 6
MaxDrawFrames == 9
MaxLevelFrames == 7

(***************************************************************************)
(* Program constants.                                                      *)
(***************************************************************************)
InitialMaxParticles == 200
MaxParticlesCeiling == 200
poolSize == 300
InitialFPS == 60
FPSCheckInterval == 1000
LowFPS == 45
HighFPS == 55
MinParticles == 100
ParticleLimitDecrease == 20
ParticleLimitIncrease == 10
FullAlpha == 1000

(***************************************************************************)
(* Inputs: requested counts, frame steps and the values Math.random()      *)
(* yields.  A spawn draws one seed; the i-th particle of the batch takes   *)
(* the low or the high representative of each range by the parity of       *)
(* seed + i, so a batch mixes short- and long-lived particles.             *)
(***************************************************************************)
SpawnCounts == {20, 195}
DeltaTimes == {1667, 100000, 400000}
FrameStep == 1667                      \* the game's step of 16.67 ms
Seeds == {0}
Types == {"trail", "explosion", "sparkle", "confetti"}
LifeRange == [trail     |-> <<100000, 140000>>,
              explosion |-> <<80000, 110000>>,
              sparkle   |-> <<200000, 340000>>,
              confetti  |-> <<200000, 290000>>]
TwinkleSpeedRange == <<50, 140>>       \* thousandths of a radian per ms
TwinkleOffsetRange == <<0, 3000>>      \* thousandths of a radian

Min(a, b) == IF a < b THEN a ELSE b
Max(a, b) == IF a > b THEN a ELSE b

Random(range, seed, i) == range[1 + ((seed + i) % 2)]

Undefined == <<>>

\* F applied to the value of v; v is evaluated once, before F.
ApplyTo(v, F(_)) == CHOOSE r \in {F(x) : x \in {v}} : TRUE

(***************************************************************************)
(* Particle (game.js 4-123).                                               *)
(***************************************************************************)
\* new Particle(x, y, velocityX, velocityY, life, color, type): maxLife is
\* life, alpha is 1.0, and there are no twinkle properties.
Particle(id, life, type) ==
    [id |-> id, type |-> type, life |-> life, maxLife |-> life,
     alpha |-> FullAlpha, twinkleSpeed |-> Undefined,
     twinkleOffset |-> Undefined]

\* new Particle(0, 0, 0, 0, 0, '#FFFFFF', 'trail')
NewParticle(id) == Particle(id, 0, "trail")

\* Mutant: a particle whose life is exactly 0 is not counted as dead.
isDeadStrict(p) == p.life < 0

isDead(p) == p.life <= 0

\* Math.sin for an angle t >= 0 given in thousandths of a radian, in
\* thousandths (Bhaskara's rational approximation, error below 0.002).
HalfTurn == 3142
SinHalf(x) == (16 * x * (HalfTurn - x))
                 \div ((5 * HalfTurn * HalfTurn - 4 * x * (HalfTurn - x))
                          \div 1000)
SinMilli(t) ==
    LET r == t % (2 * HalfTurn)
    IN  IF r <= HalfTurn THEN SinHalf(r) ELSE 0 - SinHalf(r - HalfTurn)

\* this.alpha = Math.max(0, this.life / this.maxLife)
FadeAlpha(life, maxLife) ==
    IF maxLife = 0 THEN 0 ELSE Max(0, (life * FullAlpha) \div maxLife)

\* 0.3 + 0.7 * (Math.sin(twinkleTime) * 0.5 + 0.5), in thousandths
TwinkleAlpha(p, life) ==
    LET twinkleTime == ((p.maxLife - life) * p.twinkleSpeed[1]) \div 100
                          + p.twinkleOffset[1]
    IN  300 + (700 * (SinMilli(twinkleTime) \div 2 + 500)) \div 1000

\* Mutant: update forgets to decrease life.
ParticleUpdateNoAging(p, deltaTime) ==
    [p EXCEPT !.alpha = FadeAlpha(p.life, p.maxLife)]

\* Particle.update(deltaTime)
ParticleUpdate(p, deltaTime) ==
    LET life  == p.life - deltaTime
        alpha == FadeAlpha(life, p.maxLife)
    IN  IF p.type = "sparkle" /\ p.twinkleSpeed # Undefined
        THEN [p EXCEPT !.life = life,
                       !.alpha = (alpha * TwinkleAlpha(p, life)) \div FullAlpha]
        ELSE [p EXCEPT !.life = life, !.alpha = alpha]

(***************************************************************************)
(* The pool (game.js 156-182).                                             *)
(***************************************************************************)
\* for (let i = 0; i < this.poolSize; i++) push(new Particle(...))
initializePool(n) == [i \in 1..n |-> NewParticle(i)]

\* Mutant: the pooled particle is handed out but stays on the pool.
GetParticleFromPoolNoPop(pool, stats, nid) ==
    IF Len(pool) > 0
    THEN [particle |-> pool[Len(pool)], pool |-> pool,
          stats |-> [stats EXCEPT !.poolHits = @ + 1], nextId |-> nid]
    ELSE [particle |-> NewParticle(nid), pool |-> pool,
          stats |-> [stats EXCEPT !.poolMisses = @ + 1], nextId |-> nid + 1]

\* Mutant: a particle is constructed on every call, the pool is never used.
GetParticleFromPoolAlwaysNew(pool, stats, nid) ==
    [particle |-> NewParticle(nid), pool |-> pool,
     stats |-> [stats EXCEPT !.poolMisses = @ + 1], nextId |-> nid + 1]

\* Mutant: a pool miss is not counted.
GetParticleFromPoolUncountedMiss(pool, stats, nid) ==
    IF Len(pool) > 0
    THEN [particle |-> pool[Len(pool)],
          pool |-> SubSeq(pool, 1, Len(pool) - 1),
          stats |-> [stats EXCEPT !.poolHits = @ + 1], nextId |-> nid]
    ELSE [particle |-> NewParticle(nid), pool |-> pool,
          stats |-> stats, nextId |-> nid + 1]

\* Pops the top of the pool, or constructs a particle when the pool is
\* empty.  Yields the particle and the pool, counters and next identity
\* after the call.
GetParticleFromPool(pool, stats, nid) ==
    IF Len(pool) > 0
    THEN [particle |-> pool[Len(pool)],
          pool     |-> SubSeq(pool, 1, Len(pool) - 1),
          stats    |-> [stats EXCEPT !.poolHits = @ + 1],
          nextId   |-> nid]
    ELSE [particle |-> NewParticle(nid),
          pool     |-> pool,
          stats    |-> [stats EXCEPT !.poolMisses = @ + 1],
          nextId   |-> nid + 1]

ReturnParticleToPool(pool, particle) ==
    IF Len(pool) < poolSize
    THEN Append(pool, [particle EXCEPT !.life = 0, !.alpha = FullAlpha])
    ELSE pool

RECURSIVE ReturnRange(_, _, _, _)
\* returnParticleToPool on ps[from], ..., ps[to], in this order (the range
\* is split in halves and the first half is evaluated before the second)
ReturnRange(pool, ps, from, to) ==
    IF from > to THEN pool
    ELSE IF from = to THEN ReturnParticleToPool(pool, ps[from])
    ELSE ApplyTo(ReturnRange(pool, ps, from, (from + to) \div 2),
                 LAMBDA first :
                    ReturnRange(first, ps, (from + to) \div 2 + 1, to))

\* for (let particle of ps) this.returnParticleToPool(particle)
ReturnAll(pool, ps) ==
    ApplyTo(ps, LAMBDA all : ReturnRange(pool, all, 1, Len(all)))

(***************************************************************************)
(* The performance governor (game.js 185-210).                             *)
(***************************************************************************)
\* Mutant: 45 frames in the second already count as low.
AdjustLimitInclusive(fps, limit) ==
    IF fps <= LowFPS
    THEN Max(MinParticles, limit - ParticleLimitDecrease)
    ELSE IF fps > HighFPS /\ limit < MaxParticlesCeiling
         THEN Min(MaxParticlesCeiling, limit + ParticleLimitIncrease)
         ELSE limit

\* Mutant: the decrease is not held at the floor.
AdjustLimitNoFloor(fps, limit) ==
    IF fps < LowFPS
    THEN limit - ParticleLimitDecrease
    ELSE IF fps > HighFPS /\ limit < MaxParticlesCeiling
         THEN Min(MaxParticlesCeiling, limit + ParticleLimitIncrease)
         ELSE limit

\* Mutant: the limit is raised only while a whole step below the ceiling.
AdjustLimitShortOfCeiling(fps, limit) ==
    IF fps < LowFPS
    THEN Max(MinParticles, limit - ParticleLimitDecrease)
    ELSE IF fps > HighFPS
            /\ limit < MaxParticlesCeiling - ParticleLimitIncrease
         THEN Min(MaxParticlesCeiling, limit + ParticleLimitIncrease)
         ELSE limit

AdjustLimit(fps, limit) ==
    IF fps < LowFPS
    THEN Max(MinParticles, limit - ParticleLimitDecrease)
    ELSE IF fps > HighFPS /\ limit < MaxParticlesCeiling
         THEN Min(MaxParticlesCeiling, limit + ParticleLimitIncrease)
         ELSE limit

\* Mutant: a checkpoint needs more than 1000 ms.
UpdatePerformanceStatsStrict(stats, limit, clock) ==
    LET counted == [stats EXCEPT !.frameCount = @ + 1]
    IN  IF clock - counted.lastFPSCheck > FPSCheckInterval
        THEN [stats |-> [counted EXCEPT !.currentFPS = counted.frameCount,
                                        !.frameCount = 0,
                                        !.lastFPSCheck = clock],
              limit |-> AdjustLimit(counted.frameCount, limit)]
        ELSE [stats |-> counted, limit |-> limit]

\* Yields the counters and the particle limit after the call.
UpdatePerformanceStats(stats, limit, clock) ==
    LET counted == [stats EXCEPT !.frameCount = @ + 1]
    IN  IF clock - counted.lastFPSCheck >= FPSCheckInterval
        THEN [stats |-> [counted EXCEPT !.currentFPS = counted.frameCount,
                                        !.frameCount = 0,
                                        !.lastFPSCheck = clock],
              limit |-> AdjustLimit(counted.frameCount, limit)]
        ELSE [stats |-> counted, limit |-> limit]

(***************************************************************************)
(* Spawn operations (game.js 212-321).  A system value sys is the record   *)
(* [particles, pool, stats, nextId] a spawn loop works on.                 *)
(***************************************************************************)
\* "Reinitialize pooled particle": the assignments each spawn makes to the
\* particle it obtained.  Properties a spawn does not assign keep the value
\* the object had.
TrailInit(p, seed) ==
    LET life == Random(LifeRange.trail, seed, 0)
    IN  [p EXCEPT !.life = life, !.maxLife = life, !.type = "trail",
                  !.alpha = FullAlpha]

ExplosionInit(p, seed, i) ==
    LET life == Random(LifeRange.explosion, seed, i)
    IN  [p EXCEPT !.life = life, !.maxLife = life, !.type = "explosion",
                  !.alpha = FullAlpha]

SparkleInit(p, seed, i) ==
    LET life == Random(LifeRange.sparkle, seed, i)
    IN  [p EXCEPT !.life = life, !.maxLife = life, !.type = "sparkle",
                  !.alpha = FullAlpha,
                  !.twinkleSpeed = <<Random(TwinkleSpeedRange, seed, i)>>,
                  !.twinkleOffset = <<Random(TwinkleOffsetRange, seed, i)>>]

ConfettiInit(p, seed, i) ==
    LET life == Random(LifeRange.confetti, seed, i)
    IN  [p EXCEPT !.life = life, !.maxLife = life, !.type = "confetti",
                  !.alpha = FullAlpha]

InitFor(type, p, seed, i) ==
    CASE type = "explosion" -> ExplosionInit(p, seed, i)
      [] type = "sparkle"   -> SparkleInit(p, seed, i)
      [] type = "confetti"  -> ConfettiInit(p, seed, i)
      [] OTHER              -> TrailInit(p, seed)

\* One iteration of a spawn loop: obtain a particle, reinitialize it, push
\* it on the active collection, count the creation.
SpawnOne(sys, type, seed, i) ==
    LET got == GetParticleFromPool(sys.pool, sys.stats, sys.nextId)
    IN  [particles |-> Append(sys.particles,
                              InitFor(type, got.particle, seed, i)),
         pool      |-> got.pool,
         stats     |-> [got.stats EXCEPT !.particleCreationCount = @ + 1],
         nextId    |-> got.nextId]

RECURSIVE SpawnLoop(_, _, _, _, _)
\* for (let i = 0; i < actualCount; i++) { ... }: the iterations i with
\* from <= i < to, in order (the range is split in halves and the first
\* half is evaluated before the second)
SpawnLoop(sys, type, seed, from, to) ==
    IF from >= to THEN sys
    ELSE IF to = from + 1 THEN SpawnOne(sys, type, seed, from)
    ELSE ApplyTo(SpawnLoop(sys, type, seed, from, (from + to) \div 2),
                 LAMBDA first :
                    SpawnLoop(first, type, seed, (from + to) \div 2, to))

\* Mutant: the count is limited by maxParticles alone, not by the room left.
ActualCountIgnoresActive(count, limit, active) == Min(count, limit)

\* const actualCount = Math.min(count, this.maxParticles - this.particles.length)
ActualCount(count, limit, active) == Min(count, limit - Len(active))

\* Mutant: the capacity test of createTrailParticle is off by one.
createTrailParticleOffByOne(sys, limit, seed) ==
    IF Len(sys.particles) > limit THEN sys
    ELSE SpawnOne(sys, "trail", seed, 0)

createTrailParticle(sys, limit, seed) ==
    IF Len(sys.particles) >= limit THEN sys
    ELSE SpawnOne(sys, "trail", seed, 0)

createExplosionParticles(sys, limit, count, seed) ==
    SpawnLoop(sys, "explosion", seed, 0, ActualCount(count, limit, sys.particles))

createSparkleParticles(sys, limit, count, seed) ==
    SpawnLoop(sys, "sparkle", seed, 0, ActualCount(count, limit, sys.particles))

createConfettiParticles(sys, limit, count, seed) ==
    SpawnLoop(sys, "confetti", seed, 0, ActualCount(count, limit, sys.particles))

(***************************************************************************)
(* update, cleanup, clear, optimizePerformance (game.js 323-334, 420-476). *)
(***************************************************************************)
\* Mutant: the alive particles are collected in reverse order.
SelectAliveReversed(ps) ==
    [i \in 1..Len(SelectSeq(ps, LAMBDA p : ~isDead(p))) |->
        SelectSeq(ps, LAMBDA p : ~isDead(p))
            [Len(SelectSeq(ps, LAMBDA p : ~isDead(p))) + 1 - i]]

SelectAlive(ps) == SelectSeq(ps, LAMBDA p : ~isDead(p))
SelectDead(ps) == SelectSeq(ps, LAMBDA p : isDead(p))

\* cleanup(): the dead go to the pool in array order, the alive stay
cleanup(sys) ==
    [sys EXCEPT !.pool = ReturnAll(sys.pool, SelectDead(sys.particles)),
                !.particles = SelectAlive(sys.particles)]

UpdateAll(ps, deltaTime) ==
    [i \in 1..Len(ps) |-> ParticleUpdate(ps[i], deltaTime)]

\* Mutant: clear drops the active particles without pooling them.
clearNoReturn(sys) == [sys EXCEPT !.particles = <<>>]

clear(sys) ==
    [sys EXCEPT !.pool = ReturnAll(sys.pool, sys.particles),
                !.particles = <<>>]

\* Math.floor(this.particles.length * 0.2)
ParticlesToRemove(active) == (Len(active) * 2) \div 10

\* this.particles.length > this.maxParticles * 0.8
OverLoad(active, limit) == Len(active) * 10 > limit * 8

\* Mutant: the newest particles are removed (pop instead of shift).
optimizePerformanceNewest(sys, limit) ==
    IF OverLoad(sys.particles, limit)
    THEN LET n == ParticlesToRemove(sys.particles)
         IN  [sys EXCEPT
                !.pool = ReturnAll(sys.pool,
                                   SubSeq(sys.particles,
                                          Len(sys.particles) - n + 1,
                                          Len(sys.particles))),
                !.particles = SubSeq(sys.particles, 1, Len(sys.particles) - n)]
    ELSE sys

optimizePerformance(sys, limit) ==
    IF OverLoad(sys.particles, limit)
    THEN LET n == ParticlesToRemove(sys.particles)
         IN  [sys EXCEPT
                !.pool = ReturnAll(sys.pool, SubSeq(sys.particles, 1, n)),
                !.particles = SubSeq(sys.particles, n + 1, Len(sys.particles))]
    ELSE sys

(***************************************************************************)
(* Game.updateConfettiCelebration (game.js 1776-1785): when a celebration  *)
(* has run its duration the Game assigns the active collection directly.   *)
(***************************************************************************)
\* Mutant: the filter also drops the sparkles.
RemoveConfettiAndSparkle(ps) ==
    SelectSeq(ps, LAMBDA p : p.type \notin {"confetti", "sparkle"})

RemoveConfetti(ps) == SelectSeq(ps, LAMBDA p : p.type # "confetti")

(***************************************************************************)
(* Rendering (game.js 50-96, 336-418).  A draw is the record of one        *)
(* particle being painted: which particle, and the shape painted.          *)
(***************************************************************************)
Shape == [trail |-> "circle", explosion |-> "square", sparkle |-> "star",
          confetti |-> "rectangle"]

\* Mutant: batching does not test isDead.
PrepareBatchWithDead(ps, type) == SelectSeq(ps, LAMBDA p : p.type = type)

\* prepareBatchedRendering(): the particles pushed on renderBatches[type]
PrepareBatch(ps, type) ==
    SelectSeq(ps, LAMBDA p : ~isDead(p) /\ p.type = type)

\* Particle.render(ctx): nothing when dead, else one shape by type
ParticleRender(p) ==
    IF isDead(p) THEN <<>>
    ELSE <<[id |-> p.id, type |-> p.type,
            shape |-> IF p.type \in DOMAIN Shape THEN Shape[p.type]
                      ELSE "circle"]>>

RECURSIVE RenderEach(_)
RenderEach(batch) ==
    IF batch = <<>> THEN <<>>
    ELSE ParticleRender(Head(batch)) \o RenderEach(Tail(batch))

\* renderBatch(ctx, type): trail and explosion batches are painted in
\* place, sparkle and confetti batches through Particle.render
RenderBatch(batch, type) ==
    IF type \in {"trail", "explosion"}
    THEN [i \in 1..Len(batch) |->
             [id |-> batch[i].id, type |-> batch[i].type, shape |-> Shape[type]]]
    ELSE RenderEach(batch)

\* Mutant: the sparkle batch is painted first.
BatchOrderSparkleFirst == <<"sparkle", "trail", "explosion", "confetti">>

\* The order in which ParticleSystem.render paints the batches.
BatchOrder == <<"trail", "explosion", "confetti", "sparkle">>

\* ParticleSystem.render(ctx, camera): the draws it issues, in order
\* ParticleSystem.render of test/game-classes.js (328-340): every particle
\* of the collection is painted by its own render, in the order of the
\* collection; no batches.
TestRenderDraws(ps) == RenderEach(ps)

RenderDraws(ps) ==
    RenderBatch(PrepareBatch(ps, BatchOrder[1]), BatchOrder[1])
    \o RenderBatch(PrepareBatch(ps, BatchOrder[2]), BatchOrder[2])
    \o RenderBatch(PrepareBatch(ps, BatchOrder[3]), BatchOrder[3])
    \o RenderBatch(PrepareBatch(ps, BatchOrder[4]), BatchOrder[4])

(***************************************************************************)
(* ScorePersistence (game.js 498-631) over localStorage.  A JavaScript     *)
(* value is a pair of its typeof tag and its content.  The store is a      *)
(* record: available tells whether its operations work (they throw when it *)
(* is FALSE), item is <<>> while the key is absent and <<text>> otherwise.  *)
(* A text is a record: shape tells what the string is to the program, and  *)
(* value is the object it denotes when shape is "object":                  *)
(*   "empty"    the empty string, which is falsy;                          *)
(*   "invalid"  a string JSON.parse rejects with a SyntaxError;            *)
(*   "null"     the text  null : reading a property of the result throws;  *)
(*   "scalar"   the text of a number, a string or a boolean;               *)
(*   "object"   the text of an object, whose fields may be missing         *)
(*              (undefined) or of any type.                                *)
(* Numbers are finite integers, which JSON.stringify and JSON.parse carry  *)
(* unchanged, as they do null and strings.                                 *)
(***************************************************************************)
Num(n) == <<"number", n>>
Null == <<"object", 0>>
Str == <<"string", 0>>
Missing == <<"undefined", 0>>
TypeOf(v) == v[1]

defaultData == [currentScore |-> Num(0), highScore |-> Num(0),
                lastPlayed |-> Null, gamesPlayed |-> Num(0)]

Stringify(data) == [shape |-> "object", value |-> data]
Parse(text) == text.value

EmptyStorage == [available |-> TRUE, item |-> <<>>]

\* The test write of the method succeeds exactly when the store works.
isLocalStorageAvailable(ls) == ls.available

\* Mutant: corrupted data is reported but left in the store.
handleCorruptedDataKeeps(ls) == ls

\* Yields the store after the call.
handleCorruptedData(ls) ==
    IF isLocalStorageAvailable(ls) THEN [ls EXCEPT !.item = <<>>] ELSE ls

\* Yields the data read and the store after the call (corrupted data is
\* removed from it).  `!stored` holds for an absent key and for the empty
\* string; JSON.parse throws on an invalid text and `data.highScore` throws
\* on null, both into the catch clause.
getData(ls) ==
    IF ~isLocalStorageAvailable(ls) THEN [data |-> defaultData, ls |-> ls]
    ELSE IF ls.item = <<>> THEN [data |-> defaultData, ls |-> ls]
    ELSE IF ls.item[1].shape = "empty" THEN [data |-> defaultData, ls |-> ls]
    ELSE IF ls.item[1].shape \in {"invalid", "null"}
         THEN [data |-> defaultData, ls |-> handleCorruptedData(ls)]
    ELSE IF ls.item[1].shape = "scalar"
         THEN [data |-> defaultData, ls |-> handleCorruptedData(ls)]
    ELSE LET data == Parse(ls.item[1])
         IN  IF \/ TypeOf(data.highScore) # "number"
                \/ TypeOf(data.gamesPlayed) # "number"
             THEN [data |-> defaultData, ls |-> handleCorruptedData(ls)]
             ELSE [data |-> data, ls |-> ls]

\* Mutant: the write is reported as done although the store refused it.
saveDataUnchecked(ls, data) ==
    IF ~isLocalStorageAvailable(ls) THEN [ok |-> TRUE, ls |-> ls]
    ELSE [ok |-> TRUE, ls |-> [ls EXCEPT !.item = <<Stringify(data)>>]]

\* Yields the value returned and the store after the call.
saveData(ls, data) ==
    IF ~isLocalStorageAvailable(ls) THEN [ok |-> FALSE, ls |-> ls]
    ELSE [ok |-> TRUE, ls |-> [ls EXCEPT !.item = <<Stringify(data)>>]]

\* Mutant: saveScore raises the stored high score as well.
saveScoreWithHighScore(ls, newScore, clock) ==
    LET got == getData(ls)
    IN  saveData(got.ls,
                 [got.data EXCEPT !.currentScore = Num(newScore),
                                  !.highScore = Num(Max(@[2], newScore)),
                                  !.lastPlayed = Num(clock),
                                  !.gamesPlayed = Num(@[2] + 1)])

saveScore(ls, newScore, clock) ==
    LET got == getData(ls)
    IN  saveData(got.ls,
                 [got.data EXCEPT !.currentScore = Num(newScore),
                                  !.lastPlayed = Num(clock),
                                  !.gamesPlayed = Num(@[2] + 1)])

\* Mutant: a score equal to the stored high score is saved again, and one
\* below it as well.
saveHighScoreAlways(ls, newScore, clock) ==
    LET got == getData(ls)
    IN  saveData(got.ls,
                 [got.data EXCEPT !.highScore = Num(newScore),
                                  !.currentScore = Num(newScore),
                                  !.lastPlayed = Num(clock),
                                  !.gamesPlayed = Num(@[2] + 1)])

saveHighScore(ls, newScore, clock) ==
    LET got == getData(ls)
    IN  IF newScore > got.data.highScore[2]
        THEN saveData(got.ls,
                      [got.data EXCEPT !.highScore = Num(newScore),
                                       !.currentScore = Num(newScore),
                                       !.lastPlayed = Num(clock),
                                       !.gamesPlayed = Num(@[2] + 1)])
        ELSE [ok |-> FALSE, ls |-> got.ls]

\* Yields the value returned and the store after the call.
getHighScore(ls) ==
    [value |-> getData(ls).data.highScore[2], ls |-> getData(ls).ls]

\* Yields the value returned (a JavaScript value: the field is not
\* validated by getData) and the store after the call.
getCurrentScore(ls) ==
    [value |-> getData(ls).data.currentScore, ls |-> getData(ls).ls]

\* Yields the value returned and the store after the call.
getGamesPlayed(ls) ==
    [value |-> getData(ls).data.gamesPlayed[2], ls |-> getData(ls).ls]

(***************************************************************************)
(* The level (game.js 892-977): rectangles in pixels.  The player is 32 by *)
(* 32 and starts at (100, 400).                                            *)
(***************************************************************************)
Rect(x, y, width, height) ==
    [x |-> x, y |-> y, width |-> width, height |-> height]

PlayerAt(position) == Rect(position[1], position[2], 32, 32)

StartPosition == <<100, 400>>

goal == Rect(1400, 100, 32, 50)

obstacleAreas ==
    <<[name |-> "gap1", rect |-> Rect(300, 450, 100, 100)],
      [name |-> "gap2", rect |-> Rect(600, 350, 150, 150)],
      [name |-> "gap3", rect |-> Rect(850, 250, 100, 200)],
      [name |-> "gap4", rect |-> Rect(1050, 200, 150, 100)],
      [name |-> "gap5", rect |-> Rect(1350, 150, 100, 150)],
      [name |-> "challenge1", rect |-> Rect(450, 380, 200, 70)],
      [name |-> "challenge2", rect |-> Rect(750, 280, 200, 120)],
      [name |-> "challenge3", rect |-> Rect(1150, 180, 250, 120)]>>

platforms ==
    <<Rect(0, 550, 300, 50), Rect(400, 550, 200, 50),
      Rect(700, 550, 300, 50), Rect(1100, 550, 400, 50),
      Rect(350, 450, 100, 20), Rect(550, 400, 100, 20),
      Rect(750, 350, 100, 20), Rect(950, 300, 100, 20),
      Rect(1200, 250, 150, 20), Rect(1450, 200, 100, 20),
      Rect(200, 300, 80, 20), Rect(500, 250, 80, 20),
      Rect(800, 200, 80, 20), Rect(1300, 150, 100, 20)>>

levelWidth == 1600
levelHeight == 600

\* The player as initializeLevel() leaves it; position and velocity in
\* hundredths of a pixel (per frame).
StartPlayer ==
    [position |-> <<100 * StartPosition[1], 100 * StartPosition[2]>>,
     velocity |-> <<0, 0>>, onGround |-> FALSE]

AreaNames == {obstacleAreas[k].name : k \in 1..Len(obstacleAreas)}

isColliding(rect1, rect2) ==
    /\ rect1.x < rect2.x + rect2.width
    /\ rect1.x + rect1.width > rect2.x
    /\ rect1.y < rect2.y + rect2.height
    /\ rect1.y + rect1.height > rect2.y

(***************************************************************************)
(* new Game() (game.js 789-830) over a store ls: the fields of the session *)
(* logic.  No timer is pending and no score has been submitted.            *)
(***************************************************************************)
InitialLives == 5

NewGame(ls) ==
    /\ score = 0
    /\ lives = InitialLives
    /\ gameOver = FALSE
    /\ levelComplete = FALSE
    /\ confettiCelebration = [active |-> FALSE, startTime |-> 0]
    /\ debugFrameCount = 0
    /\ timers = <<>>
    /\ highScore = getHighScore(ls).value
    /\ localStorage = getHighScore(ls).ls
    /\ submitted = {}
    /\ trailTimer = 0
    /\ sparkleTimers = [name \in AreaNames |-> Undefined]
    /\ playerInObstacleAreas = {}
    /\ framesInside = [name \in AreaNames |-> 0]
    /\ player = StartPlayer
    /\ camera = <<0, 0>>
    /\ lifeCollected = FALSE

(***************************************************************************)
(* The session logic of Game (game.js 979-1012, 1285-1345, 1723-1829).  A  *)
(* game value g is the record of the fields a frame works on: the fields   *)
(* of Game, the store ls, the particle system sys with its limit, and the  *)
(* pending timers.  What the geometry of a frame decides (the player fell  *)
(* out of the level, touched a collectible, the power-up of type 'life'    *)
(* or the goal) is the set of events of the frame, an input; "none" in it  *)
(* stands for nothing.  Where the player is and how fast it moves          *)
(* once handleInput, gravity and the position update have been applied is  *)
(* the input move of the frame: its velocity in hundredths of a pixel per  *)
(* frame, its position in pixels and the number of platforms it touches    *)
(* (hits): checkCollisions spawns one explosion for each of them.          *)
(***************************************************************************)
CelebrationDuration == 3000
ConfettiCount == 50
WaveDelays == <<0, 200, 500, 1000>>
WaveIntensities == <<40, 30, 20, 10>>          \* hundredths
GoalScore == 1000
GemScore == 100
GemParticles == 12
LifeScore == 500
PowerUpParticles == 15
DebugCheckFrames == 120
DebugCheckFPS == 50

\* ParticleSystem.update(deltaTime) as a function: yields the system and
\* the limit after the call.
update(sys, limit, clock, deltaTime) ==
    ApplyTo(UpdatePerformanceStats(sys.stats, limit, clock), LAMBDA gov :
        [sys   |-> cleanup([sys EXCEPT
                              !.stats = gov.stats,
                              !.particles = UpdateAll(sys.particles, deltaTime)]),
         limit |-> gov.limit])

\* The celebration becomes active and four timers are set; no particle is
\* created before a timer fires.
triggerConfettiCelebration(g, clock) ==
    [g EXCEPT !.confetti = [active |-> TRUE, startTime |-> clock],
              !.timers = @ \o [k \in 1..Len(WaveDelays) |->
                                 [due       |-> clock + WaveDelays[k],
                                  intensity |-> WaveIntensities[k]]]]

\* The statements checkGoal and loseLife share: save the score, save the
\* high score, and celebrate when saveHighScore returns true.
EndOfSession(g, clock) ==
    ApplyTo(saveHighScore(saveScore(g.ls, g.score, clock).ls, g.score, clock),
            LAMBDA high :
        IF high.ok
        THEN triggerConfettiCelebration(
                 [g EXCEPT !.ls = high.ls, !.highScore = g.score,
                           !.submitted = @ \cup {g.score}], clock)
        ELSE [g EXCEPT !.ls = high.ls, !.submitted = @ \cup {g.score}])

loseLifeBelowZero(g, clock) ==
    IF g.lives - 1 < 0
    THEN EndOfSession([g EXCEPT !.lives = @ - 1, !.gameOver = TRUE], clock)
    ELSE [g EXCEPT !.lives = @ - 1]

loseLife(g, clock) ==
    IF g.lives - 1 <= 0
    THEN EndOfSession([g EXCEPT !.lives = @ - 1, !.gameOver = TRUE], clock)
    ELSE [g EXCEPT !.lives = @ - 1]

checkGoal(g, colliding, clock) ==
    IF colliding
    THEN EndOfSession([g EXCEPT !.levelComplete = TRUE,
                                !.score = @ + GoalScore], clock)
    ELSE g

PlatformParticles == 8

RECURSIVE PlatformHits(_, _, _, _)
\* checkCollisions, for the platforms the player touches: one explosion of
\* 8 particles for each of them
PlatformHits(g, seed, from, to) ==
    IF from >= to THEN g
    ELSE ApplyTo([g EXCEPT !.sys = createExplosionParticles(
                                       @, g.limit, PlatformParticles,
                                       seed + from)],
                 LAMBDA first : PlatformHits(first, seed, from + 1, to))

\* checkCollisions, for a collectible the player touches
\* A power-up of type 'life' is collected: handlePowerUp and the explosion
collectLife(g, seed) ==
    [g EXCEPT !.lives = @ + 1,
              !.score = @ + LifeScore,
              !.sys = createExplosionParticles(g.sys, g.limit,
                                               PowerUpParticles, seed)]

collectGem(g, seed) ==
    [g EXCEPT !.score = @ + GemScore,
              !.sys = createExplosionParticles(g.sys, g.limit,
                                               GemParticles, seed)]

updateConfettiCelebration(g, clock) ==
    IF ~g.confetti.active THEN g
    ELSE IF clock - g.confetti.startTime >= CelebrationDuration
         THEN [g EXCEPT !.confetti.active = FALSE,
                        !.sys.particles = RemoveConfetti(@)]
         ELSE g

\* "Automatic performance optimization if needed", every 120 frames
debugCheck(g) ==
    IF /\ g.debugFrameCount % DebugCheckFrames = 0
       /\ g.sys.stats.currentFPS < DebugCheckFPS
       /\ OverLoad(g.sys.particles, g.limit)
    THEN [g EXCEPT !.sys = optimizePerformance(@, g.limit)]
    ELSE g

(***************************************************************************)
(* The trail of updatePlayer (game.js 1059-1095).  trailTimer counts in    *)
(* 300ths, so that adding movementIntensity / 3 adds the intensity in      *)
(* hundredths.  The velocities a frame is given have an intensity that is  *)
(* a whole number of hundredths.                                           *)
(***************************************************************************)
MovingThreshold == 50                  \* 0.5
TrailTimerFull == 300                  \* 1.0
MaxIntensity == 1000

Abs(n) == IF n < 0 THEN 0 - n ELSE n

\* Math.sqrt(vx * vx + vy * vy), in hundredths
movementIntensity(velocity) ==
    CHOOSE r \in 0..MaxIntensity :
        /\ r * r <= velocity[1] * velocity[1] + velocity[2] * velocity[2]
        /\ velocity[1] * velocity[1] + velocity[2] * velocity[2]
              < (r + 1) * (r + 1)

\* Mutant: a velocity of exactly 0.5 counts as moving.
isMovingInclusive(velocity) ==
    Abs(velocity[1]) >= MovingThreshold \/ Abs(velocity[2]) >= MovingThreshold

isMoving(velocity) ==
    Abs(velocity[1]) > MovingThreshold \/ Abs(velocity[2]) > MovingThreshold

\* Math.min(1.0, movementIntensity / 3), in 300ths
trailFrequency(velocity) == Min(TrailTimerFull, movementIntensity(velocity))

\* Math.ceil(movementIntensity / 2)
numTrailPoints(velocity) == (movementIntensity(velocity) + 199) \div 200

RECURSIVE TrailLoop(_, _, _, _, _)
\* for (let i = 0; i < numTrailPoints; i++) createTrailParticle(...): the
\* iterations i with from <= i < to, in order
TrailLoop(sys, limit, seed, from, to) ==
    IF from >= to THEN sys
    ELSE ApplyTo(createTrailParticle(sys, limit, seed + from), LAMBDA first :
             TrailLoop(first, limit, seed, from + 1, to))

\* The part of updatePlayer between the position update and the bounds.
updatePlayerTrail(g, velocity, seed) ==
    IF isMoving(velocity)
    THEN IF g.trailTimer + trailFrequency(velocity) >= TrailTimerFull
         THEN [g EXCEPT !.trailTimer = 0,
                        !.sys = TrailLoop(@, g.limit, seed, 0,
                                          numTrailPoints(velocity))]
         ELSE [g EXCEPT !.trailTimer = @ + trailFrequency(velocity)]
    ELSE [g EXCEPT !.trailTimer = 0]

(***************************************************************************)
(* checkObstacleAreas (game.js 1225-1283).                                 *)
(***************************************************************************)
SparkleFrames == 8
SparklesPerBurst == 3

\* The names of the areas the rectangle player touches.
AreasAt(playerRect) ==
    {obstacleAreas[k].name :
        k \in {j \in 1..Len(obstacleAreas) :
                  isColliding(playerRect, obstacleAreas[j].rect)}}

RECURSIVE SparkleLoop(_, _, _, _, _)
\* for (let i = 0; i < 3; i++) createSparkleParticles(sparkleX, sparkleY, 1)
SparkleLoop(sys, limit, seed, from, to) ==
    IF from >= to THEN sys
    ELSE ApplyTo(createSparkleParticles(sys, limit, 1, seed + from),
                 LAMBDA first : SparkleLoop(first, limit, seed, from + 1, to))

\* The body of the first loop for the area obstacleAreas[k].
checkObstacleArea(g, playerRect, seed, k) ==
    LET name == obstacleAreas[k].name
        sparkleTimer ==
            (IF g.sparkleTimers[name] = Undefined
             THEN 0 ELSE g.sparkleTimers[name][1]) + 1
    IN  IF ~isColliding(playerRect, obstacleAreas[k].rect) THEN g
        ELSE IF sparkleTimer >= SparkleFrames
             THEN [g EXCEPT !.sparkleTimers[name] = <<0>>,
                            !.sys = SparkleLoop(@, g.limit, seed, 0,
                                                SparklesPerBurst)]
             ELSE [g EXCEPT !.sparkleTimers[name] = <<sparkleTimer>>]

RECURSIVE ObstacleAreaLoop(_, _, _, _)
\* for (let area of this.obstacleAreas) { ... }, from the k-th area on
ObstacleAreaLoop(g, playerRect, seed, k) ==
    IF k > Len(obstacleAreas) THEN g
    ELSE ApplyTo(checkObstacleArea(g, playerRect, seed, k), LAMBDA first :
             ObstacleAreaLoop(first, playerRect, seed, k + 1))

\* The first loop, then the timers of the areas just left are deleted and
\* the set of current areas is stored.
checkObstacleAreas(g, playerRect, seed) ==
    ApplyTo(ObstacleAreaLoop(g, playerRect, seed, 1), LAMBDA sparkled :
        [sparkled EXCEPT
            !.sparkleTimers =
                [name \in AreaNames |->
                    IF name \in g.inAreas /\ name \notin AreasAt(playerRect)
                    THEN Undefined ELSE @[name]],
            !.inAreas = AreasAt(playerRect)])

\* The player at rest at the start of the level.
AtRest == [velocity |-> <<0, 0>>, position |-> StartPosition, hits |-> 0]

\* Game.update(): nothing once the session has ended; else the player
\* step (the trail, and a life lost on a fall), the collisions, the
\* obstacle areas, the goal, the particle system's update by 16.67 ms, the
\* celebration, the periodic check.
GameUpdate(g, events, move, seed, clock) ==
    IF g.gameOver \/ g.levelComplete THEN g
    ELSE
      ApplyTo(updatePlayerTrail(g, move.velocity, seed), LAMBDA g0 :
      ApplyTo(IF "fall" \in events THEN loseLife(g0, clock) ELSE g0,
              LAMBDA g1 :
      ApplyTo(PlatformHits(g1, seed, 0, move.hits), LAMBDA g1a :
      ApplyTo(IF "gem" \in events THEN collectGem(g1a, seed) ELSE g1a,
              LAMBDA g1b :
      ApplyTo(IF "life" \in events THEN collectLife(g1b, seed) ELSE g1b,
              LAMBDA g2 :
      ApplyTo(checkObstacleAreas(g2, PlayerAt(move.position), seed),
              LAMBDA g2a :
      ApplyTo(checkGoal(g2a, "goal" \in events, clock), LAMBDA g3 :
      ApplyTo(update(g3.sys, g3.limit, clock, FrameStep), LAMBDA up :
      ApplyTo(updateConfettiCelebration(
                  [g3 EXCEPT !.sys = up.sys, !.limit = up.limit], clock),
              LAMBDA g5 :
      ApplyTo([g5 EXCEPT !.debugFrameCount = @ + 1], LAMBDA g6 :
          debugCheck(g6)))))))))))

\* Mutant: restart leaves the particles where they are.
restartKeepsParticles(g) ==
    ApplyTo(getHighScore(g.ls), LAMBDA high :
        [g EXCEPT !.score = 0, !.lives = InitialLives,
                  !.gameOver = FALSE, !.levelComplete = FALSE,
                  !.inAreas = {},
                  !.confetti = [active |-> FALSE, startTime |-> 0],
                  !.highScore = high.value,
                  !.ls = high.ls])

restart(g) ==
    ApplyTo(getHighScore(g.ls), LAMBDA high :
        [g EXCEPT !.score = 0, !.lives = InitialLives,
                  !.gameOver = FALSE, !.levelComplete = FALSE,
                  !.sys = clear(@),
                  !.inAreas = {},
                  !.confetti = [active |-> FALSE, startTime |-> 0],
                  !.highScore = high.value,
                  !.ls = high.ls])

\* One turn of gameLoop with the assets loaded: restart when the session
\* has ended and R is down, then update.
gameLoop(g, keyR, events, move, seed, clock) ==
    ApplyTo(IF (g.gameOver \/ g.levelComplete) /\ keyR THEN restart(g) ELSE g,
            LAMBDA started : GameUpdate(started, events, move, seed, clock))

\* const waveCount = Math.floor(confettiCount * intensity)
WaveCount(intensity) == (ConfettiCount * intensity) \div 100

RECURSIVE WaveLoop(_, _, _, _, _)
\* for (let i = 0; i < waveCount; i++) createConfettiParticles(x, y, 1, ...):
\* the iterations i with from <= i < to, in order
WaveLoop(sys, limit, seed, from, to) ==
    IF from >= to THEN sys
    ELSE IF to = from + 1
         THEN createConfettiParticles(sys, limit, 1, seed + from)
    ELSE ApplyTo(WaveLoop(sys, limit, seed, from, (from + to) \div 2),
                 LAMBDA first :
                    WaveLoop(first, limit, seed, (from + to) \div 2, to))

\* The callback of a wave timer
confettiWave(g, intensity, seed) ==
    IF g.confetti.active
    THEN [g EXCEPT !.sys = WaveLoop(g.sys, g.limit, seed, 0,
                                    WaveCount(intensity))]
    ELSE g

\* The pending timer that fires first: the earliest due, and among equals
\* the one set first.
NextTimer(ts) ==
    CHOOSE k \in 1..Len(ts) :
        \A j \in 1..Len(ts) :
            ts[k].due < ts[j].due \/ (ts[k].due = ts[j].due /\ k <= j)

RemoveAt(ts, k) == SubSeq(ts, 1, k - 1) \o SubSeq(ts, k + 1, Len(ts))

(***************************************************************************)
(* AssetManager (game.js 633-693) and the loading of the Kiro logo by Game *)
(* (game.js 831-880).  The asset stored under a key is "absent", "image"   *)
(* (the HTMLImageElement) or "fallback" (the object { fallback: true,      *)
(* renderer }).  An image load in flight is a record: the key, whether a   *)
(* fallback renderer was supplied, and the caller whose code continues     *)
(* when the promise settles.  An assets value a is the record of the five  *)
(* variables of this part.                                                 *)
(***************************************************************************)
AssetKeys == {"kiroLogo", "sprite"}

Bool(b) == <<"boolean", b>>

\* new AssetManager() in a game that has not started loading
NoAssets ==
    [images |-> [key \in AssetKeys |-> "absent"],
     loadingStates |-> [key \in AssetKeys |-> "unset"],
     loads |-> <<>>, assetsLoaded |-> FALSE, loopStarted |-> FALSE]

\* The value of the expression, a boolean or the undefined `.fallback` of
\* an image element.
isLoaded(a, key) ==
    IF a.loadingStates[key] = "loaded" THEN Bool(TRUE)
    ELSE IF a.images[key] = "absent" THEN Bool(FALSE)
    ELSE IF a.images[key] = "fallback" THEN Bool(TRUE)
    ELSE Missing

hasError(a, key) == a.loadingStates[key] = "error"

isLoading(a, key) == a.loadingStates[key] = "loading"

\* loadImage up to the return of the promise: yields the assets after the
\* call, the state of the promise and the value it resolved with.
loadImage(a, key, fallback, caller) ==
    IF a.images[key] # "absent"
    THEN [assets |-> a, outcome |-> "resolved", value |-> a.images[key]]
    ELSE [assets |-> [a EXCEPT !.loadingStates[key] = "loading",
                               !.loads = Append(@, [key |-> key,
                                                    fallback |-> fallback,
                                                    caller |-> caller])],
          outcome |-> "pending", value |-> "absent"]

\* img.onload of the i-th load in flight
onload(a, i) ==
    [assets |-> [a EXCEPT !.images[a.loads[i].key] = "image",
                          !.loadingStates[a.loads[i].key] = "loaded",
                          !.loads = RemoveAt(@, i)],
     outcome |-> "resolved", value |-> "image"]

\* img.onerror of the i-th load in flight
onerror(a, i) ==
    IF a.loads[i].fallback
    THEN [assets |-> [a EXCEPT !.images[a.loads[i].key] = "fallback",
                               !.loadingStates[a.loads[i].key] = "error",
                               !.loads = RemoveAt(@, i)],
          outcome |-> "resolved", value |-> "fallback"]
    ELSE [assets |-> [a EXCEPT !.loadingStates[a.loads[i].key] = "error",
                               !.loads = RemoveAt(@, i)],
          outcome |-> "rejected", value |-> "absent"]

\* Mutant: the game waits for the image itself; a fallback does not start
\* the loop.
loadAssetsSettledNeedsImage(a, caller, settled) ==
    IF caller = "constructor" /\ settled.value = "image"
    THEN [a EXCEPT !.assetsLoaded = TRUE, !.loopStarted = TRUE]
    ELSE IF caller = "restart" THEN [a EXCEPT !.assetsLoaded = TRUE]
    ELSE a

\* What runs, in the same turn of the event loop, once the promise of a
\* load has settled: loadAssets catches a rejection and returns, and the
\* caller's then (or catch) sets assetsLoaded; the constructor's also
\* starts the game loop.  Loads made by other callers continue nothing in
\* the game.
loadAssetsSettled(a, caller, settled) ==
    IF caller = "constructor"
    THEN [a EXCEPT !.assetsLoaded = TRUE, !.loopStarted = TRUE]
    ELSE IF caller = "restart" THEN [a EXCEPT !.assetsLoaded = TRUE]
    ELSE a

\* loadAssets up to its await, called by the constructor or by restart.  A
\* promise that is resolved at once continues in the same turn.
loadAssets(a, caller) ==
    \* the logo is always requested with the fallback renderer
    LET started == loadImage(a, "kiroLogo", TRUE, caller)
    IN  IF started.outcome = "pending" THEN started.assets
        ELSE loadAssetsSettled(started.assets, caller, started)

\* The part of restart that looks at the assets.
restartAssets(a) ==
    IF isLoaded(a, "kiroLogo") = Bool(TRUE) THEN a
    ELSE loadAssets([a EXCEPT !.assetsLoaded = FALSE], "restart")

\* The assets once the constructor of Game has returned.
AssetsOfNewGame == loadAssets(NoAssets, "constructor")

(***************************************************************************)
(* The state machine.                                                      *)
(***************************************************************************)
Sys == [particles |-> particles, pool |-> particlePool,
        stats |-> performanceStats, nextId |-> nextId]

\* The system's variables take the values of the system value sys.
Becomes(sys) ==
    \E next \in {sys} :
        /\ particles' = next.particles
        /\ particlePool' = next.pool
        /\ performanceStats' = next.stats
        /\ nextId' = next.nextId

\* A call of an operation of the particle system from outside the game
\* loop; the fields of Game and the store are not touched.
Called(op, arg) ==
    /\ calls < MaxCalls
    /\ UNCHANGED gameVars
    /\ UNCHANGED assetVars
    /\ UNCHANGED playerVars
    /\ calls' = calls + 1
    /\ lastOp' = [op |-> op, arg |-> arg,
                  active |-> Len(particles), pooled |-> Len(particlePool),
                  limit |-> maxParticles]

Assets == [images |-> images, loadingStates |-> loadingStates,
           loads |-> loads, assetsLoaded |-> assetsLoaded,
           loopStarted |-> loopStarted]

\* The variables of the assets take (primed) or have (unprimed) the values
\* of the assets value a.
AssetsBecome(a) ==
    \E next \in {a} :
        /\ images' = next.images
        /\ loadingStates' = next.loadingStates
        /\ loads' = next.loads
        /\ assetsLoaded' = next.assetsLoaded
        /\ loopStarted' = next.loopStarted

AssetsAre(a) ==
    /\ images = a.images
    /\ loadingStates = a.loadingStates
    /\ loads = a.loads
    /\ assetsLoaded = a.assetsLoaded
    /\ loopStarted = a.loopStarted

\* new Game() over the store ls, with its new ParticleSystem(ctx), and the
\* assets a
InitOver(ls, a) ==
    /\ particles = <<>>
    /\ maxParticles = InitialMaxParticles
    /\ particlePool = initializePool(poolSize)
    /\ performanceStats = [frameCount |-> 0, lastFPSCheck |-> 0,
                           currentFPS |-> InitialFPS,
                           particleCreationCount |-> 0,
                           poolHits |-> 0, poolMisses |-> 0]
    /\ now = 0
    /\ nextId = poolSize + 1
    /\ calls = 0
    /\ lastOp = [op |-> "constructor", arg |-> 0, active |-> 0,
                 pooled |-> 0, limit |-> InitialMaxParticles]
    /\ drawn = <<>>
    /\ NewGame(ls)
    /\ AssetsAre(a)

\* The game when its constructor has returned: the load of the logo is in
\* flight.
InitWith(ls) == InitOver(ls, AssetsOfNewGame)

\* The game constructed in a browser whose store holds nothing yet.
Init == InitWith(EmptyStorage)

CreateTrail ==
    \E seed \in Seeds :
        /\ Called("createTrailParticle", 1)
        /\ Becomes(createTrailParticle(Sys, maxParticles, seed))
        /\ UNCHANGED <<maxParticles, now, drawn>>

CreateExplosionOf(counts) ==
    \E count \in counts, seed \in Seeds :
        /\ Called("createExplosionParticles", count)
        /\ Becomes(createExplosionParticles(Sys, maxParticles, count, seed))
        /\ UNCHANGED <<maxParticles, now, drawn>>

CreateExplosion == CreateExplosionOf(SpawnCounts)

CreateSparkleOf(counts) ==
    \E count \in counts, seed \in Seeds :
        /\ Called("createSparkleParticles", count)
        /\ Becomes(createSparkleParticles(Sys, maxParticles, count, seed))
        /\ UNCHANGED <<maxParticles, now, drawn>>

CreateSparkle == CreateSparkleOf(SpawnCounts)

CreateConfettiOf(counts) ==
    \E count \in counts, seed \in Seeds :
        /\ Called("createConfettiParticles", count)
        /\ Becomes(createConfettiParticles(Sys, maxParticles, count, seed))
        /\ UNCHANGED <<maxParticles, now, drawn>>

CreateConfetti == CreateConfettiOf(SpawnCounts)

\* Mutant: update cuts the active collection down to the limit the governor
\* has just set.
UpdateStepCulling(deltaTime) ==
    \E gov \in {UpdatePerformanceStats(performanceStats, maxParticles, now)},
       moved \in {UpdateAll(particles, deltaTime)} :
        /\ maxParticles' = gov.limit
        /\ \E kept \in {cleanup([Sys EXCEPT !.stats = gov.stats,
                                             !.particles = moved])} :
              Becomes([kept EXCEPT !.particles =
                          SubSeq(kept.particles, 1,
                                 Min(Len(kept.particles), gov.limit))])
        /\ UNCHANGED <<now, drawn>>

\* ParticleSystem.update(deltaTime): governor, then every particle, then
\* cleanup.
UpdateStep(deltaTime) ==
    \E gov \in {UpdatePerformanceStats(performanceStats, maxParticles, now)},
       moved \in {UpdateAll(particles, deltaTime)} :
        /\ maxParticles' = gov.limit
        /\ Becomes(cleanup([Sys EXCEPT !.stats = gov.stats,
                                       !.particles = moved]))
        /\ UNCHANGED <<now, drawn>>

Update ==
    \E deltaTime \in DeltaTimes :
        /\ Called("update", deltaTime)
        /\ UpdateStep(deltaTime)

Clear ==
    /\ Called("clear", 0)
    /\ Becomes(clear(Sys))
    /\ UNCHANGED <<maxParticles, now, drawn>>

OptimizePerformance ==
    /\ Called("optimizePerformance", 0)
    /\ Becomes(optimizePerformance(Sys, maxParticles))
    /\ UNCHANGED <<maxParticles, now, drawn>>

\* The assignment in Game.updateConfettiCelebration.
ConfettiCleanup ==
    /\ Called("confettiCleanup", 0)
    /\ particles' = RemoveConfetti(particles)
    /\ UNCHANGED <<particlePool, performanceStats, nextId, maxParticles,
                   now, drawn>>

\* The wall clock advances.
Tick ==
    /\ now + FPSCheckInterval <= MaxSeconds * 1000
    /\ now' = now + FPSCheckInterval
    /\ UNCHANGED <<particles, particlePool, maxParticles, performanceStats,
                   nextId, calls, lastOp, drawn>>
    /\ UNCHANGED gameVars
    /\ UNCHANGED assetVars
    /\ UNCHANGED playerVars

Next ==
    \/ CreateTrail
    \/ CreateExplosion
    \/ CreateSparkle
    \/ CreateConfetti
    \/ Update
    \/ Clear
    \/ OptimizePerformance
    \/ ConfettiCleanup
    \/ Tick

Spec == Init /\ [][Next]_vars

(***************************************************************************)
(* Rendering as a function of the active collection: the collection holds  *)
(* any particles a caller constructed and pushed, dead ones included (as   *)
(* the test suites do), and render is applied to it.                       *)
(***************************************************************************)
RenderLives == {0 - 1667, 0, 50000}

RenderInputs ==
    UNION {[1..n -> Types \X RenderLives] : n \in 0..MaxRenderLen}

InitRender ==
    /\ \E input \in RenderInputs :
          particles = [i \in 1..Len(input) |->
                          Particle(poolSize + i, input[i][2], input[i][1])]
    /\ maxParticles = InitialMaxParticles
    /\ particlePool = initializePool(poolSize)
    /\ performanceStats = [frameCount |-> 0, lastFPSCheck |-> 0,
                           currentFPS |-> InitialFPS,
                           particleCreationCount |-> 0,
                           poolHits |-> 0, poolMisses |-> 0]
    /\ now = 0
    /\ nextId = poolSize + Len(particles) + 1
    /\ calls = 0
    /\ lastOp = [op |-> "constructor", arg |-> 0, active |-> 0,
                 pooled |-> 0, limit |-> InitialMaxParticles]
    /\ drawn = <<>>
    /\ NewGame(EmptyStorage)
    /\ AssetsAre(AssetsOfNewGame)

\* render reads the system and changes nothing of it; it is not counted
\* among the calls.
Render ==
    /\ drawn' = RenderDraws(particles)
    /\ lastOp' = [op |-> "render", arg |-> 0, active |-> Len(particles),
                  pooled |-> Len(particlePool), limit |-> maxParticles]
    /\ UNCHANGED <<particles, particlePool, maxParticles, performanceStats,
                   now, nextId, calls>>
    /\ UNCHANGED gameVars
    /\ UNCHANGED assetVars
    /\ UNCHANGED playerVars

NextRender == Render

SpecRender == InitRender /\ [][NextRender]_vars

(***************************************************************************)
(* The frame loop keeps calling update: a bounded number of spawn calls,   *)
(* and an update whenever a particle is active.  (Updates of an empty      *)
(* system change only the frame counter and are left out here.)            *)
(***************************************************************************)
FrameDeltaTimes == {100000, 400000}
FrameSpawnCounts == {20}

FrameUpdate ==
    \E deltaTime \in FrameDeltaTimes :
        /\ particles # <<>>
        /\ UpdateStep(deltaTime)
        /\ lastOp' = [op |-> "update", arg |-> deltaTime,
                      active |-> Len(particles),
                      pooled |-> Len(particlePool), limit |-> maxParticles]
        /\ UNCHANGED calls
        /\ UNCHANGED gameVars
        /\ UNCHANGED assetVars
        /\ UNCHANGED playerVars

FrameSpawn ==
    /\ calls < MaxFrameSpawns
    /\ \/ CreateTrail
       \/ CreateExplosionOf(FrameSpawnCounts)
       \/ CreateSparkleOf(FrameSpawnCounts)
       \/ CreateConfettiOf(FrameSpawnCounts)

NextFrames ==
    \/ FrameSpawn
    \/ FrameUpdate

SpecFrames == Init /\ [][NextFrames]_vars /\ WF_vars(FrameUpdate)

(***************************************************************************)
(* The governor under load: update is called frame after frame on a system *)
(* without particles while the wall clock advances in half seconds.  The   *)
(* clock is read after one of the numbers of frames FramesAtTick, so that  *)
(* the frames counted in a second fall on both sides of the thresholds 45  *)
(* and 55.                                                                 *)
(***************************************************************************)
GovTickStep == 500
FramesAtTick == {43, 44, 54, 55}

CheckpointDue == now - performanceStats.lastFPSCheck >= FPSCheckInterval

GovUpdate ==
    /\ performanceStats.frameCount < MaxGovFrames \/ CheckpointDue
    /\ UpdateStep(FrameStep)
    /\ lastOp' = [op |-> "update", arg |-> FrameStep,
                  active |-> Len(particles),
                  pooled |-> Len(particlePool), limit |-> maxParticles]
    /\ UNCHANGED calls
    /\ UNCHANGED gameVars
    /\ UNCHANGED assetVars
    /\ UNCHANGED playerVars

GovTick ==
    /\ performanceStats.frameCount \in FramesAtTick
    /\ now + GovTickStep <= MaxGovSeconds * 1000
    /\ now' = now + GovTickStep
    /\ lastOp' = [op |-> "tick", arg |-> GovTickStep,
                  active |-> Len(particles),
                  pooled |-> Len(particlePool), limit |-> maxParticles]
    /\ UNCHANGED <<particles, particlePool, maxParticles, performanceStats,
                   nextId, calls, drawn>>
    /\ UNCHANGED gameVars
    /\ UNCHANGED assetVars
    /\ UNCHANGED playerVars

NextGovernor ==
    \/ GovUpdate
    \/ GovTick

SpecGovernor == Init /\ [][NextGovernor]_vars

(***************************************************************************)
(* The governor without an end: the same frames and half seconds, the loop *)
(* never stopping.  The program reads the clock only as the difference     *)
(* now - lastFPSCheck, so the origin of the clock is moved to the last     *)
(* checkpoint before the clock advances again; this keeps the clock below  *)
(* a second and a half and changes no difference.  Frames keep coming and  *)
(* the clock keeps advancing (weak fairness).                              *)
(***************************************************************************)
LiveUpdate == GovUpdate

LiveTick ==
    /\ \/ performanceStats.frameCount \in FramesAtTick
       \/ performanceStats.frameCount >= MaxGovFrames
    /\ performanceStats.lastFPSCheck = 0
    /\ ~CheckpointDue
    /\ now' = now + GovTickStep
    /\ lastOp' = [op |-> "tick", arg |-> GovTickStep,
                  active |-> Len(particles),
                  pooled |-> Len(particlePool), limit |-> maxParticles]
    /\ UNCHANGED <<particles, particlePool, maxParticles, performanceStats,
                   nextId, calls, drawn>>
    /\ UNCHANGED gameVars
    /\ UNCHANGED assetVars
    /\ UNCHANGED playerVars

ClockOrigin ==
    /\ performanceStats.lastFPSCheck > 0
    /\ now' = now - performanceStats.lastFPSCheck
    /\ performanceStats' = [performanceStats EXCEPT !.lastFPSCheck = 0]
    /\ lastOp' = [op |-> "origin", arg |-> performanceStats.lastFPSCheck,
                  active |-> Len(particles),
                  pooled |-> Len(particlePool), limit |-> maxParticles]
    /\ UNCHANGED <<particles, particlePool, maxParticles, nextId, calls,
                   drawn>>
    /\ UNCHANGED gameVars
    /\ UNCHANGED assetVars
    /\ UNCHANGED playerVars

NextConverge ==
    \/ LiveUpdate
    \/ LiveTick
    \/ ClockOrigin

SpecConverge ==
    /\ Init
    /\ [][NextConverge]_vars
    /\ WF_vars(LiveUpdate)
    /\ WF_vars(LiveTick)
    /\ WF_vars(ClockOrigin)

(***************************************************************************)
(* The score store under a sequence of saveHighScore and saveScore calls,  *)
(* starting with a working store that holds nothing or holds text that is  *)
(* not score data.                                                         *)
(***************************************************************************)
Scores == {0, 100, 500, 1000}

GarbageText == [shape |-> "invalid", value |-> defaultData]
WrongShapeText == Stringify([defaultData EXCEPT !.highScore = Str])

FreshStores == {EmptyStorage,
                [available |-> TRUE, item |-> <<GarbageText>>],
                [available |-> TRUE, item |-> <<WrongShapeText>>]}

InitScores == \E ls \in FreshStores : InitWith(ls)

StoreCalled(op, arg) ==
    /\ calls < MaxScoreCalls
    /\ calls' = calls + 1
    /\ lastOp' = [op |-> op, arg |-> arg, active |-> Len(particles),
                  pooled |-> Len(particlePool), limit |-> maxParticles]
    /\ UNCHANGED <<particles, particlePool, maxParticles, performanceStats,
                   now, nextId, drawn>>
    /\ UNCHANGED <<score, lives, gameOver, levelComplete, highScore,
                   confettiCelebration, debugFrameCount, timers>>
    /\ UNCHANGED assetVars
    /\ UNCHANGED playerVars

SaveHighScore ==
    \E newScore \in Scores :
        /\ StoreCalled("saveHighScore", newScore)
        /\ localStorage' = saveHighScore(localStorage, newScore, now).ls
        /\ submitted' = submitted \cup {newScore}

SaveScore ==
    \E newScore \in Scores :
        /\ StoreCalled("saveScore", newScore)
        /\ localStorage' = saveScore(localStorage, newScore, now).ls
        /\ UNCHANGED submitted

NextScores ==
    \/ SaveHighScore
    \/ SaveScore

SpecScores == InitScores /\ [][NextScores]_vars

(***************************************************************************)
(* The score store read and written through every public operation of      *)
(* ScorePersistence, starting with a store that works or does not and that *)
(* holds nothing, text that is not score data, or score data.  The entry   *)
(* belongs to the page's origin: other scripts and the user can rewrite it *)
(* at any time.  The item an operation found and the value it returned are *)
(* kept in lastOp.found and lastOp.returned.                               *)
(***************************************************************************)
EmptyText == [shape |-> "empty", value |-> defaultData]
NullText == [shape |-> "null", value |-> defaultData]
ScalarText == [shape |-> "scalar", value |-> defaultData]
NoFieldsText ==
    Stringify([currentScore |-> Missing, highScore |-> Missing,
               lastPlayed |-> Missing, gamesPlayed |-> Missing])
WrongGamesPlayedText == Stringify([defaultData EXCEPT !.gamesPlayed = Null])
ScoreDataText ==
    Stringify([currentScore |-> Num(100), highScore |-> Num(500),
               lastPlayed |-> Num(0), gamesPlayed |-> Num(2)])

StoredTexts == {EmptyText, GarbageText, NullText, ScalarText, NoFieldsText,
                WrongShapeText, WrongGamesPlayedText, ScoreDataText}

StoreStates ==
    {[available |-> a, item |-> i] :
        a \in BOOLEAN, i \in {<<>>} \cup {<<t>> : t \in StoredTexts}}

InitStore == \E ls \in StoreStates : InitWith(ls)

\* A call that returned the value and left the store of `result`.
StoreReturned(op, arg, result) ==
    /\ calls < MaxStoreCalls
    /\ calls' = calls + 1
    /\ lastOp' = [op |-> op, arg |-> arg, active |-> Len(particles),
                  pooled |-> Len(particlePool), limit |-> maxParticles,
                  found |-> localStorage.item, returned |-> result[1]]
    /\ localStorage' = result[2]
    /\ UNCHANGED <<particles, particlePool, maxParticles, performanceStats,
                   now, nextId, drawn>>
    /\ UNCHANGED <<score, lives, gameOver, levelComplete, highScore,
                   confettiCelebration, debugFrameCount, timers, submitted>>
    /\ UNCHANGED assetVars
    /\ UNCHANGED playerVars

StoreSaveScore ==
    \E newScore \in Scores :
        \E r \in {saveScore(localStorage, newScore, now)} :
            StoreReturned("saveScore", newScore, <<r.ok, r.ls>>)

StoreSaveHighScore ==
    \E newScore \in Scores :
        \E r \in {saveHighScore(localStorage, newScore, now)} :
            StoreReturned("saveHighScore", newScore, <<r.ok, r.ls>>)

StoreGetHighScore ==
    \E r \in {getHighScore(localStorage)} :
        StoreReturned("getHighScore", 0, <<r.value, r.ls>>)

StoreGetCurrentScore ==
    \E r \in {getCurrentScore(localStorage)} :
        StoreReturned("getCurrentScore", 0, <<r.value, r.ls>>)

StoreGetGamesPlayed ==
    \E r \in {getGamesPlayed(localStorage)} :
        StoreReturned("getGamesPlayed", 0, <<r.value, r.ls>>)

\* Something other than the game rewrites the entry.
StoreTampered ==
    \E text \in StoredTexts :
        /\ calls < MaxStoreCalls
        /\ lastOp.op # "tampered"
        /\ localStorage.item # <<text>>
        /\ localStorage' = [localStorage EXCEPT !.item = <<text>>]
        /\ lastOp' = [op |-> "tampered", arg |-> 0,
                      active |-> Len(particles),
                      pooled |-> Len(particlePool), limit |-> maxParticles,
                      found |-> localStorage.item, returned |-> 0]
        /\ UNCHANGED <<particles, particlePool, maxParticles,
                       performanceStats, now, nextId, calls, drawn>>
        /\ UNCHANGED <<score, lives, gameOver, levelComplete, highScore,
                       confettiCelebration, debugFrameCount, timers,
                       submitted>>
        /\ UNCHANGED assetVars
        /\ UNCHANGED playerVars

NextStore ==
    \/ StoreTampered
    \/ StoreSaveScore
    \/ StoreSaveHighScore
    \/ StoreGetHighScore
    \/ StoreGetCurrentScore
    \/ StoreGetGamesPlayed

SpecStore == InitStore /\ [][NextStore]_vars

(***************************************************************************)
(* The assets: the game has been constructed and waits for its logo, other *)
(* callers (a test, a page script) ask the same AssetManager for images    *)
(* with or without a fallback renderer, and the browser fires load or      *)
(* error for each image whose src was set.  The callbacks of a settled     *)
(* promise run in the turn of the event that settled it.  The key, the     *)
(* promise's state and its value are kept in lastOp.                       *)
(***************************************************************************)
AssetDid(op, key, fallback, settled) ==
    /\ lastOp' = [op |-> op, arg |-> key, active |-> Len(particles),
                  pooled |-> Len(particlePool), limit |-> maxParticles,
                  fallback |-> fallback, outcome |-> settled.outcome,
                  value |-> settled.value]
    /\ UNCHANGED <<particles, particlePool, maxParticles, performanceStats,
                   now, nextId, drawn>>
    /\ UNCHANGED gameVars
    /\ UNCHANGED playerVars

\* A caller other than the game calls loadImage.
LoadImage ==
    \E key \in AssetKeys, fallback \in BOOLEAN :
        \E started \in {loadImage(Assets, key, fallback, "caller")} :
            /\ calls < MaxLoads
            /\ calls' = calls + 1
            /\ AssetsBecome(started.assets)
            /\ AssetDid("loadImage", key, fallback, started)

\* The event `op` of the i-th load in flight, which settles the promise as
\* `settled`, and the callbacks of the promise.
ImageEvent(op, i, settled) ==
    /\ AssetsBecome(loadAssetsSettled(settled.assets, loads[i].caller,
                                      settled))
    /\ AssetDid(op, loads[i].key, loads[i].fallback, settled)
    /\ UNCHANGED calls

ImageLoaded ==
    \E i \in 1..Len(loads) : ImageEvent("onload", i, onload(Assets, i))

ImageFailed ==
    \E i \in 1..Len(loads) : ImageEvent("onerror", i, onerror(Assets, i))

\* The browser fires one of the two events for the game's own image.
LogoSettles ==
    \E i \in 1..Len(loads) :
        /\ loads[i].caller # "caller"
        /\ \/ ImageEvent("onload", i, onload(Assets, i))
           \/ ImageEvent("onerror", i, onerror(Assets, i))

NextAssets ==
    \/ LoadImage
    \/ ImageLoaded
    \/ ImageFailed

SpecAssets == Init /\ [][NextAssets]_vars /\ WF_vars(LogoSettles)

(***************************************************************************)
(* The running game: gameLoop turns, timer callbacks and the wall clock,   *)
(* starting with any state of the store.  Update runs for a bounded number *)
(* of frames, which take less than one step of the clock: the clock is     *)
(* seen to advance once a session has ended.  Turns of the loop after the  *)
(* end of a session are not bounded, and the loop keeps turning whether or *)
(* not R is pressed.                                                       *)
(***************************************************************************)
GameEvents == {"none", "gem", "fall", "goal"}
GameTickStep == 1000

UnavailableStorage == [available |-> FALSE, item |-> <<>>]
StoredHighScores == {1000}

GameStores ==
    {EmptyStorage, UnavailableStorage,
     [available |-> TRUE, item |-> <<GarbageText>>]}
    \cup {[available |-> TRUE,
           item |-> <<Stringify([defaultData EXCEPT
                                   !.highScore = Num(h),
                                   !.currentScore = Num(h),
                                   !.gamesPlayed = Num(1)])>>] :
             h \in StoredHighScores}

\* The assets once the logo has loaded and the loop has been started.
LogoLoaded ==
    LET settled == onload(AssetsOfNewGame, 1)
    IN  loadAssetsSettled(settled.assets, "constructor", settled)

InitGame == \E ls \in GameStores : InitOver(ls, LogoLoaded)

GameState ==
    [score |-> score, lives |-> lives, gameOver |-> gameOver,
     levelComplete |-> levelComplete, highScore |-> highScore,
     confetti |-> confettiCelebration, debugFrameCount |-> debugFrameCount,
     timers |-> timers, ls |-> localStorage, submitted |-> submitted,
     trailTimer |-> trailTimer, sparkleTimers |-> sparkleTimers,
     inAreas |-> playerInObstacleAreas,
     sys |-> Sys, limit |-> maxParticles]

\* The variables take the values of the game value g.
GameBecomes(g) ==
    \E next \in {g} :
        /\ score' = next.score
        /\ lives' = next.lives
        /\ gameOver' = next.gameOver
        /\ levelComplete' = next.levelComplete
        /\ highScore' = next.highScore
        /\ confettiCelebration' = next.confetti
        /\ debugFrameCount' = next.debugFrameCount
        /\ timers' = next.timers
        /\ localStorage' = next.ls
        /\ submitted' = next.submitted
        /\ trailTimer' = next.trailTimer
        /\ sparkleTimers' = next.sparkleTimers
        /\ playerInObstacleAreas' = next.inAreas
        /\ maxParticles' = next.limit
        /\ Becomes(next.sys)

GameDid(op) ==
    /\ lastOp' = [op |-> op, arg |-> 0, active |-> Len(particles),
                  pooled |-> Len(particlePool), limit |-> maxParticles]
    /\ UNCHANGED <<now, calls, drawn>>

\* A turn of the loop, R not pressed.
GameFrame ==
    \E event \in GameEvents, seed \in Seeds :
        /\ loopStarted /\ assetsLoaded
        /\ gameOver \/ levelComplete \/ debugFrameCount < MaxGameFrames
        /\ event = "gem" => score < MaxGems * GemScore
        /\ GameBecomes(gameLoop(GameState, FALSE, {event}, AtRest, seed,
                                now))
        /\ GameDid("frame")
        /\ UNCHANGED <<assetVars, framesInside, player, camera,
                   lifeCollected>>

\* A turn of the loop with R down after the end of a session.
GameRestart ==
    \E seed \in Seeds :
        /\ loopStarted /\ assetsLoaded
        /\ gameOver \/ levelComplete
        /\ debugFrameCount <= MaxRestartFrame
        /\ GameBecomes(gameLoop(GameState, TRUE, {}, AtRest, seed, now))
        /\ AssetsBecome(restartAssets(Assets))
        /\ GameDid("restart")
        /\ UNCHANGED <<framesInside, player, camera, lifeCollected>>

\* The callback of the timer that is due first.
TimerFire ==
    /\ timers # <<>>
    /\ timers[NextTimer(timers)].due <= now
    /\ \E seed \in Seeds :
          GameBecomes(confettiWave(
              [GameState EXCEPT !.timers = RemoveAt(@, NextTimer(timers))],
              timers[NextTimer(timers)].intensity, seed))
    /\ GameDid("timer")
    /\ UNCHANGED <<assetVars, framesInside, player, camera,
                   lifeCollected>>

GameTick ==
    /\ gameOver \/ levelComplete
    /\ now + GameTickStep <= MaxGameSeconds * 1000
    /\ now' = now + GameTickStep
    /\ lastOp' = [op |-> "tick", arg |-> GameTickStep,
                  active |-> Len(particles),
                  pooled |-> Len(particlePool), limit |-> maxParticles]
    /\ UNCHANGED <<particles, particlePool, maxParticles, performanceStats,
                   nextId, calls, drawn>>
    /\ UNCHANGED gameVars
    /\ UNCHANGED assetVars
    /\ UNCHANGED playerVars

NextGame ==
    \/ GameFrame
    \/ GameRestart
    \/ TimerFire
    \/ GameTick

SpecGame ==
    InitGame /\ [][NextGame]_vars /\ WF_vars(GameFrame) /\ WF_vars(TimerFire)

(***************************************************************************)
(* The player in motion: frames of the running game in which the player    *)
(* has one of the velocities TrailVelocities and touches no obstacle area, *)
(* no collectible and not the goal.  The velocities are at rest, exactly   *)
(* at the threshold on both axes, slow (0.75: the timer fills in four      *)
(* frames), faster (1.5: two frames) and at the player's speed (5: every   *)
(* frame, three trail points).  Once, a collision fills the system up to   *)
(* two places below its limit.                                             *)
(***************************************************************************)
TrailVelocities == {<<0, 0>>, <<50, 0 - 50>>, <<0, 0 - 75>>, <<150, 0>>,
                    <<500, 0>>}
FillCounts == {198}

\* What a turn of the loop leaves in lastOp: the velocity and position the
\* frame was given.
PlayerDid(op, move) ==
    /\ lastOp' = [op |-> op, arg |-> 0, active |-> Len(particles),
                  pooled |-> Len(particlePool), limit |-> maxParticles,
                  velocity |-> move.velocity, position |-> move.position]
    /\ UNCHANGED <<now, calls, drawn>>
    /\ UNCHANGED assetVars

\* The consecutive frames inside each area, after a frame of play with the
\* player at `position`.
FramesInsideAfter(position) ==
    [name \in AreaNames |->
        IF name \in AreasAt(PlayerAt(position))
        THEN framesInside[name] + 1 ELSE 0]

TrailFrame ==
    \E velocity \in TrailVelocities, seed \in Seeds :
        \E move \in {[velocity |-> velocity, position |-> StartPosition,
                     hits |-> 0]} :
            /\ debugFrameCount < MaxTrailFrames
            /\ GameBecomes(gameLoop(GameState, FALSE, {}, move, seed, now))
            /\ framesInside' = FramesInsideAfter(move.position)
            /\ UNCHANGED <<player, camera, lifeCollected>>
            /\ PlayerDid("frame", move)

TrailFill ==
    /\ calls = 0
    /\ CreateExplosionOf(FillCounts)

NextTrail ==
    \/ TrailFrame
    \/ TrailFill

\* The game once the logo has loaded, over a store that holds nothing.
InitTrail == InitOver(EmptyStorage, LogoLoaded)

SpecTrail == InitTrail /\ [][NextTrail]_vars

(***************************************************************************)
(* The player among the obstacle areas: frames of the running game in      *)
(* which the player stands at one of the positions SparklePositions, and   *)
(* restart once the goal has been reached.  The positions are the start    *)
(* (outside every area), inside gap5, inside gap5 and challenge3, and      *)
(* inside gap5 touching the goal, which lies right above that area.  The   *)
(* store holds a high score no session of these reaches, so no celebration *)
(* is triggered.  Frames on the way from one position to another, outside  *)
(* every area, change nothing the areas depend on and are left out.        *)
(***************************************************************************)
InGap5 == <<1400, 200>>
InGap5AndChallenge3 == <<1380, 200>>
InGap5AtGoal == <<1400, 130>>

SparklePositions == {StartPosition, InGap5, InGap5AndChallenge3, InGap5AtGoal}

PlayedStorage ==
    [available |-> TRUE,
     item |-> <<Stringify([currentScore |-> Num(0), highScore |-> Num(5000),
                           lastPlayed |-> Num(0), gamesPlayed |-> Num(1)])>>]

InitSparkle == InitOver(PlayedStorage, LogoLoaded)

\* What the position decides for the frame.
EventAt(position) ==
    IF isColliding(PlayerAt(position), goal) THEN "goal" ELSE "none"

\* A turn of the loop during play, R not pressed.
SparkleFrame ==
    \E position \in SparklePositions, seed \in Seeds :
        \E move \in {[velocity |-> <<0, 0>>, position |-> position,
                     hits |-> 0]} :
            /\ ~(gameOver \/ levelComplete)
            /\ debugFrameCount < MaxSparkleFrames
            /\ GameBecomes(gameLoop(GameState, FALSE, {EventAt(position)}, move,
                                    seed, now))
            /\ framesInside' = FramesInsideAfter(move.position)
            /\ UNCHANGED <<player, camera, lifeCollected>>
            /\ PlayerDid("frame", move)

\* A turn of the loop with R down after the end of the session: restart
\* puts the player at the start, and update runs.
SparkleRestart ==
    \E seed \in Seeds :
        /\ gameOver \/ levelComplete
        /\ debugFrameCount < MaxSparkleFrames
        /\ GameBecomes(gameLoop(GameState, TRUE, {}, AtRest, seed, now))
        /\ framesInside' = FramesInsideAfter(AtRest.position)
        /\ UNCHANGED <<player, camera, lifeCollected>>
        /\ PlayerDid("restart", AtRest)

NextSparkle ==
    \/ SparkleFrame
    \/ SparkleRestart

SpecSparkle == InitSparkle /\ [][NextSparkle]_vars

(***************************************************************************)
(* The player under the game's physics (game.js 1014-1168): handleInput,   *)
(* the motion of updatePlayer and the platform collisions, on positions    *)
(* and velocities in hundredths (gravity 0.2 is 20, flyPower * 0.2 is      *)
(* 160).  The frames are given no horizontal key, so the player stays in   *)
(* the column x = 100 above the first ground platform, where it touches no *)
(* collectible, no power-up, no obstacle area and not the goal; the key    *)
(* ArrowDown is down or not during the first MaxKeyFrames frames and up    *)
(* afterwards.                                                             *)
(***************************************************************************)
Gravity == 20
FlyDown == 160
maxFlySpeed == 600
PlayerSize == 3200

CollisionKeys == {"none", "ArrowDown"}

\* velocityX *= 0.8 without a horizontal key (the velocities of these
\* frames are 0); velocityY += flyPower * 0.2, capped, with ArrowDown
handleInput(p, key) ==
    [p EXCEPT !.velocity =
        <<(p.velocity[1] * 8) \div 10,
          IF key = "ArrowDown"
          THEN Min(maxFlySpeed, p.velocity[2] + FlyDown)
          ELSE p.velocity[2]>>]

\* updatePlayer: gravity and the position update
Moved(p) ==
    [p EXCEPT !.velocity = <<@[1], @[2] + Gravity>>,
              !.position = <<@[1] + p.velocity[1],
                             @[2] + p.velocity[2] + Gravity>>]

\* updatePlayer: the level bounds, after the trail
Bounded(p) ==
    [p EXCEPT !.position =
        <<Max(0, Min(@[1], 100 * levelWidth - PlayerSize)), Max(0, @[2])>>]

\* this.player.y > this.levelHeight
Fallen(p) == p.position[2] > 100 * levelHeight

\* The rectangles of the player and of a platform, in hundredths.
PlayerRect(p) == Rect(p.position[1], p.position[2], PlayerSize, PlayerSize)
Scaled(rect) == Rect(100 * rect.x, 100 * rect.y, 100 * rect.width,
                     100 * rect.height)

\* The body of the platform loop for a platform the player touches.
resolveCollision(p, platform) ==
    IF p.velocity[2] > 0 /\ p.position[2] < platform.y
    THEN [p EXCEPT !.position = <<@[1], platform.y - PlayerSize>>,
                   !.velocity = <<@[1], 0>>, !.onGround = TRUE]
    ELSE IF p.velocity[2] < 0 /\ p.position[2] > platform.y
    THEN [p EXCEPT !.position = <<@[1], platform.y + platform.height>>,
                   !.velocity = <<@[1], 0>>]
    ELSE IF p.velocity[1] > 0
    THEN [p EXCEPT !.position = <<platform.x - PlayerSize, @[2]>>,
                   !.velocity = <<0, @[2]>>]
    ELSE IF p.velocity[1] < 0
    THEN [p EXCEPT !.position = <<platform.x + platform.width, @[2]>>,
                   !.velocity = <<0, @[2]>>]
    ELSE p

RECURSIVE PlatformLoop(_, _)
\* for (let platform of this.platforms), from platforms[k] on: the player
\* and the number of platforms touched
PlatformLoop(c, k) ==
    IF k > Len(platforms) THEN c
    ELSE IF isColliding(PlayerRect(c.player), Scaled(platforms[k]))
    THEN PlatformLoop([player |-> resolveCollision(c.player,
                                                   Scaled(platforms[k])),
                       hits |-> c.hits + 1], k + 1)
    ELSE PlatformLoop(c, k + 1)

\* checkCollisions, the platforms
checkCollisions(p) ==
    PlatformLoop([player |-> [p EXCEPT !.onGround = FALSE], hits |-> 0], 1)

\* loseLife puts the player back to the start while lives remain.
AfterFall(p, livesLeft) ==
    IF livesLeft > 0
    THEN [p EXCEPT !.position = StartPlayer.position, !.velocity = <<0, 0>>]
    ELSE p

\* A turn of the loop during play, R not pressed: the frame's move is what
\* the physics make of the player.
CollisionFrame ==
    \E key \in CollisionKeys, seed \in Seeds :
      \E moved \in {Moved(handleInput(player, key))} :
        \E fallen \in {IF Fallen(Bounded(moved))
                       THEN AfterFall(Bounded(moved), lives - 1)
                       ELSE Bounded(moved)} :
          \E landed \in {checkCollisions(fallen)} :
            \E move \in {[velocity |-> moved.velocity,
                          position |-> <<landed.player.position[1] \div 100,
                                         landed.player.position[2] \div 100>>,
                          hits |-> landed.hits]} :
              /\ ~(gameOver \/ levelComplete)
              /\ debugFrameCount < MaxCollisionFrames
              /\ key = "ArrowDown" => debugFrameCount < MaxKeyFrames
              /\ GameBecomes(gameLoop(
                     GameState, FALSE,
                     IF Fallen(Bounded(moved)) THEN {"fall"} ELSE {},
                     move, seed, now))
              /\ player' = landed.player
              /\ UNCHANGED <<camera, lifeCollected>>
              /\ framesInside' = FramesInsideAfter(move.position)
              /\ PlayerDid("frame", move)

NextCollision == CollisionFrame

SpecCollision == InitTrail /\ [][NextCollision]_vars

(***************************************************************************)
(* The key R: turns of the loop in which R is down or up, whatever the     *)
(* state of the session, and the wave timers that are due at once.         *)
(* lastOp.arg is 1 when R was down.  While the session runs the frame is   *)
(* given an event (a fall, the goal, or nothing); once it has ended the    *)
(* player is where the session left it and, after a restart, at the start. *)
(***************************************************************************)
KeyEvents == {"none", "fall", "goal"}

KeyFrame ==
    \E keyR \in BOOLEAN, seed \in Seeds :
        \E event \in IF gameOver \/ levelComplete THEN {"none"}
                     ELSE KeyEvents :
            /\ loopStarted /\ assetsLoaded
            /\ debugFrameCount < MaxLoopTurns
            /\ GameBecomes(gameLoop(GameState, keyR, {event}, AtRest, seed,
                                    now))
            /\ AssetsBecome(IF (gameOver \/ levelComplete) /\ keyR
                            THEN restartAssets(Assets) ELSE Assets)
            /\ lastOp' = [op |-> "frame", arg |-> IF keyR THEN 1 ELSE 0,
                          active |-> Len(particles),
                          pooled |-> Len(particlePool),
                          limit |-> maxParticles]
            /\ UNCHANGED <<now, calls, drawn, framesInside, player, camera,
                           lifeCollected>>

NextKey ==
    \/ KeyFrame
    \/ TimerFire

SpecKey == InitTrail /\ [][NextKey]_vars

(***************************************************************************)
(* Game.render (game.js 1347-1654) on a drawing context: the context is    *)
(* its current translation and the stack of saved translations.  Scaling   *)
(* and rotation happen only between a save and its restore around single   *)
(* objects and are not carried.  The camera follows the player by a tenth  *)
(* of the distance per frame, here in whole hundredths of a pixel.  The    *)
(* canvas is 800 by 600.                                                   *)
(***************************************************************************)
CanvasWidth == 800
CanvasHeight == 600

\* Game.updateCamera, for the player at `position` (pixels)
updateCamera(cam, position) ==
    <<Max(0, Min(cam[1] + (100 * position[1] - 50 * CanvasWidth - cam[1])
                              \div 10,
                 100 * (levelWidth - CanvasWidth))),
      Max(0, Min(cam[2] + (100 * position[2] - 50 * CanvasHeight - cam[2])
                              \div 10,
                 100 * (levelHeight - CanvasHeight)))>>

NewContext == [translation |-> <<0, 0>>, saved |-> <<>>]

Save(ctx) == [ctx EXCEPT !.saved = Append(@, ctx.translation)]

Restore(ctx) ==
    IF ctx.saved = <<>> THEN ctx
    ELSE [translation |-> ctx.saved[Len(ctx.saved)],
          saved |-> SubSeq(ctx.saved, 1, Len(ctx.saved) - 1)]

Translate(ctx, dx, dy) ==
    [ctx EXCEPT !.translation = <<@[1] + dx, @[2] + dy>>]

\* ParticleSystem.render(ctx, camera): the translation under which the
\* batches are drawn, and the context it leaves (each batch and each
\* particle restores what it saves).
ParticleSystemRender(ctx, cam) ==
    ApplyTo(Translate(Save(ctx), 0 - cam[1], 0 - cam[2]), LAMBDA inner :
        [under |-> inner.translation, ctx |-> Restore(inner)])

\* Game.render with the assets loaded: the translations under which the
\* world (platforms, collectibles, goal, player) and the particles are
\* drawn, and the depth of the stack of saved states it leaves.
GameRender(cam) ==
    ApplyTo(Translate(Save(NewContext), 0 - cam[1], 0 - cam[2]),
            LAMBDA world :
        ApplyTo(ParticleSystemRender(world, cam), LAMBDA system :
            [worldUnder |-> world.translation,
             particlesUnder |-> system.under,
             depth |-> Len(Restore(system.ctx).saved)]))

\* A turn of the loop during play: update, in which the camera follows
\* the player, then render.
DrawFrame ==
    \E position \in {StartPosition, InGap5}, seed \in Seeds :
        \E move \in {[velocity |-> <<0, 0>>, position |-> position,
                     hits |-> 0]} :
            /\ debugFrameCount < MaxDrawFrames
            /\ GameBecomes(gameLoop(GameState, FALSE, {}, move, seed,
                                    now))
            /\ framesInside' = FramesInsideAfter(position)
            /\ camera' = updateCamera(camera, position)
            /\ drawn' = RenderDraws(particles')
            /\ lastOp' = [op |-> "draw", arg |-> 0,
                          active |-> Len(particles),
                          pooled |-> Len(particlePool),
                          limit |-> maxParticles,
                          render |-> GameRender(camera')]
            /\ UNCHANGED <<now, calls, player, lifeCollected>>
            /\ UNCHANGED assetVars

NextDraw == DrawFrame

SpecDraw == InitSparkle /\ [][NextDraw]_vars

(***************************************************************************)
(* Lives: turns of the loop in which the player is at one of LevelPlaces   *)
(* after updatePlayer has moved it: the start, below the level, below the  *)
(* level under the goal, at the goal, at the power-up of type 'life'.  The *)
(* frame's events follow from the place: the fall from                     *)
(* player.y > levelHeight, the power-up and the goal from isColliding at   *)
(* the place loseLife leaves the player in.  R is down or not.             *)
(***************************************************************************)
lifePowerUp == Rect(850, 150, 20, 20)

LevelPlaces ==
    {StartPosition, <<100, 601>>, <<1400, 601>>, <<1400, 100>>, <<850, 150>>}

\* The number of platforms the player touches at `position`.
PlatformsTouched(position) ==
    Cardinality({k \in 1..Len(platforms) :
                    isColliding(PlayerAt(position), platforms[k])})

\* The events of update() for the player at `at`, with `livesNow` lives
\* and the power-up collected or not.
EventsAt(at, livesNow, collected) ==
    LET fell  == at[2] > levelHeight
        after == IF fell /\ livesNow - 1 > 0 THEN StartPosition ELSE at
    IN  [after  |-> after,
         events |->
            (IF fell THEN {"fall"} ELSE {})
            \cup (IF ~collected /\ isColliding(PlayerAt(after), lifePowerUp)
                  THEN {"life"} ELSE {})
            \cup (IF isColliding(PlayerAt(after), goal)
                  THEN {"goal"} ELSE {})]

LevelFrame ==
    \E place \in LevelPlaces, keyR \in BOOLEAN, seed \in Seeds :
      \E restarts \in {(gameOver \/ levelComplete) /\ keyR} :
        \E frame \in {EventsAt(IF restarts THEN StartPosition ELSE place,
                               IF restarts THEN InitialLives ELSE lives,
                               ~restarts /\ lifeCollected)} :
          \E move \in {[velocity |-> <<0, 0>>, position |-> frame.after,
                        hits |-> PlatformsTouched(frame.after)]} :
            /\ loopStarted /\ assetsLoaded
            /\ debugFrameCount < MaxLevelFrames
            /\ GameBecomes(gameLoop(GameState, keyR, frame.events, move,
                                    seed, now))
            /\ AssetsBecome(IF restarts THEN restartAssets(Assets)
                            ELSE Assets)
            /\ lifeCollected' =
                  IF restarts \/ ~(gameOver \/ levelComplete)
                  THEN (~restarts /\ lifeCollected)
                       \/ "life" \in frame.events
                  ELSE lifeCollected
            /\ framesInside' =
                  IF restarts \/ ~(gameOver \/ levelComplete)
                  THEN FramesInsideAfter(frame.after)
                  ELSE framesInside
            /\ lastOp' = [op |-> "frame", arg |-> IF keyR THEN 1 ELSE 0,
                          active |-> Len(particles),
                          pooled |-> Len(particlePool),
                          limit |-> maxParticles,
                          events |-> IF restarts
                                        \/ ~(gameOver \/ levelComplete)
                                     THEN frame.events ELSE {}]
            /\ UNCHANGED <<now, calls, drawn, player, camera>>

NextLives ==
    \/ LevelFrame
    \/ TimerFire

SpecLives == InitTrail /\ [][NextLives]_vars

(***************************************************************************)
(* Properties.                                                             *)
(***************************************************************************)
Ids(ps) == {ps[i].id : i \in 1..Len(ps)}
CountSpawnOps == {"createExplosionParticles", "createSparkleParticles",
                  "createConfettiParticles"}
SpawnOps == CountSpawnOps \cup {"createTrailParticle"}
KindOf == [createExplosionParticles |-> "explosion",
           createSparkleParticles |-> "sparkle",
           createConfettiParticles |-> "confetti",
           createTrailParticle |-> "trail"]
\* The step just taken is a call of one of the operations ops.
Did(ops) == calls' = calls + 1 /\ lastOp'.op \in ops

\* C1 (as claimed): at every observation point the number of active
\* particles is at most the current maxParticles.
C1_ActiveWithinLimit == Len(particles) <= maxParticles

\* C1 (amended): the number of active particles never exceeds 200, no spawn
\* grows the active collection beyond the current maxParticles (a spawn
\* made at or above the limit adds nothing), and the active count exceeds
\* maxParticles only after the governor has lowered the limit.
C1_SpawnsRespectLimit ==
    /\ Len(particles) <= MaxParticlesCeiling
    /\ lastOp.op \in SpawnOps =>
          Len(particles) <= Max(lastOp.active, maxParticles)
    /\ Len(particles) > maxParticles => maxParticles < InitialMaxParticles

\* C1 witness: a spawn was called while the lowered limit was already
\* exceeded, and it added nothing.
C1_Witness ==
    /\ lastOp.op \in SpawnOps
    /\ lastOp.active > lastOp.limit
    /\ Len(particles) = lastOp.active

\* C2: a count-based spawn with requested count n appends exactly
\* min(n, maxParticles - active.size) particles (none when that is <= 0),
\* all of the requested kind, and leaves the particles already active as
\* they were.
C2_SpawnAppendsActualCount ==
    [][Did(CountSpawnOps) =>
        LET k == Max(0, Min(lastOp'.arg, maxParticles - Len(particles)))
        IN  /\ Len(particles') = Len(particles) + k
            /\ SubSeq(particles', 1, Len(particles)) = particles
            /\ \A i \in Len(particles) + 1 .. Len(particles') :
                  particles'[i].type = KindOf[lastOp'.op]]_vars

\* C2 witness: with maxParticles = 200 and 195 active, a request for 20
\* added exactly 5.
C2_Witness ==
    /\ lastOp.op \in CountSpawnOps
    /\ lastOp.arg = 20 /\ lastOp.active = 195 /\ lastOp.limit = 200
    /\ Len(particles) = 200

\* The ranks of the kinds in the order render paints them.
RenderRank == [trail |-> 1, explosion |-> 2, confetti |-> 3, sparkle |-> 4]

\* C3: render paints the particles grouped by kind in the order Trail,
\* Explosion, Confetti, Sparkle: kinds are never interleaved, every
\* sparkle comes after all particles of the other kinds, and every live
\* particle is painted exactly once.
C3_RenderOrder ==
    lastOp.op = "render" =>
        /\ \A i, j \in 1..Len(drawn) :
              i < j => RenderRank[drawn[i].type] <= RenderRank[drawn[j].type]
        /\ \A i \in 1..Len(particles) :
              particles[i].life > 0 =>
                 Cardinality({j \in 1..Len(drawn) :
                                 drawn[j].id = particles[i].id}) = 1

\* C3 witness: a sparkle created before a trail and a confetti particle is
\* painted after them.
C3_Witness ==
    /\ lastOp.op = "render"
    /\ Len(particles) = 3 /\ Len(drawn) = 3
    /\ particles[1].type = "sparkle"
    /\ particles[2].type = "confetti"
    /\ particles[3].type = "trail"
    /\ drawn[3].type = "sparkle"

\* C4: after every update no active particle is dead, and every particle
\* whose life reached <= 0 during the call has left the active collection
\* and is in the pool.
C4_NoDeadAfterUpdate ==
    /\ [](lastOp.op = "update" => \A i \in 1..Len(particles) :
                                     particles[i].life > 0)
    /\ [][Did({"update"}) =>
            \A i \in 1..Len(particles) :
               particles[i].life - lastOp'.arg <= 0 =>
                  /\ particles[i].id \notin Ids(particles')
                  /\ particles[i].id \in Ids(particlePool')]_vars

\* C4 witness: an update removed some particles and kept others.
C4_Witness ==
    /\ lastOp.op = "update"
    /\ Len(particles) > 0
    /\ Len(particles) < lastOp.active
    /\ Len(particlePool) > lastOp.pooled

\* The step just taken is an update of a non-empty system by the frame loop.
FrameUpdated ==
    /\ performanceStats'.frameCount = performanceStats.frameCount + 1
    /\ lastOp'.op = "update"

\* C5: every update with dt > 0 strictly decreases the life of every active
\* particle (a particle that stays active has less life than before), and
\* with the frame loop running the active collection becomes empty again
\* after every spawn.
C5_LifeDecreasesUntilRemoved ==
    /\ [][FrameUpdated =>
            /\ lastOp'.arg > 0
            /\ Ids(particles') \subseteq Ids(particles)
            /\ \A i \in 1..Len(particles) :
                  \A j \in 1..Len(particles') :
                     particles'[j].id = particles[i].id =>
                        /\ particles'[j].life < particles[i].life
                        /\ particles'[j].life > 0]_vars
    /\ (particles # <<>>) ~> (particles = <<>>)

\* C5 witness: the frame loop updated a system of which some particles
\* survived and, later, an update removed the last ones.
C5_Witness ==
    /\ lastOp.op = "update"
    /\ lastOp.active > 0
    /\ particles = <<>>
    /\ performanceStats.frameCount > 1

\* C6: render paints only particles of the active collection whose life
\* is > 0, whatever the collection holds.
C6_RenderSkipsDead ==
    lastOp.op = "render" =>
        \A j \in 1..Len(drawn) :
           \E i \in 1..Len(particles) :
              particles[i].id = drawn[j].id /\ particles[i].life > 0

\* C6 witness: the collection held a dead and a live particle, and render
\* painted exactly one particle.
C6_Witness ==
    /\ lastOp.op = "render"
    /\ Len(drawn) = 1
    /\ \E i \in 1..Len(particles) : particles[i].life <= 0
    /\ \E i \in 1..Len(particles) : particles[i].life > 0

\* C7: no particle is in the active collection and in the pool at once,
\* and no particle appears twice in either.
C7_ExclusiveOwnership ==
    Cardinality(Ids(particles) \cup Ids(particlePool))
        = Len(particles) + Len(particlePool)

\* C7 witness: particles went from the pool to the active collection and
\* some of them back, with others still active.
C7_Witness ==
    /\ performanceStats.particleCreationCount > Len(particles)
    /\ Len(particles) > 0
    /\ Len(particlePool) + Len(particles) = poolSize

\* C8: active.size + pool.size never exceeds the pool capacity plus the
\* current maxParticles.
C8_Conservation ==
    Len(particles) + Len(particlePool) <= poolSize + maxParticles

\* C8 witness: after spawns and an update that returned dead particles to
\* the pool, with the limit lowered by the governor.
C8_Witness ==
    /\ lastOp.op = "update"
    /\ Len(particlePool) > lastOp.pooled
    /\ Len(particles) > 0
    /\ maxParticles < InitialMaxParticles

\* C9: an active particle carries no value left from an earlier life: a
\* particle that is not a sparkle has no twinkle properties.
C9_NoStaleFields ==
    \A i \in 1..Len(particles) :
       particles[i].type # "sparkle" =>
          /\ particles[i].twinkleSpeed = Undefined
          /\ particles[i].twinkleOffset = Undefined

\* C10: poolHits + poolMisses equals particleCreationCount, and a spawn
\* that creates k particles pops min(k, pool size) particles from the pool,
\* counting one hit each, and constructs the rest, counting one miss each.
C10_HitsPlusMisses ==
    /\ [](performanceStats.poolHits + performanceStats.poolMisses
             = performanceStats.particleCreationCount)
    /\ [][Did(SpawnOps) =>
            LET k == Len(particles') - Len(particles)
                hits == Min(k, Len(particlePool))
            IN  /\ performanceStats'.poolHits
                      = performanceStats.poolHits + hits
                /\ performanceStats'.poolMisses
                      = performanceStats.poolMisses + (k - hits)
                /\ Len(particlePool') = Len(particlePool) - hits
                /\ nextId' = nextId + (k - hits)]_vars

\* C10 witness: a spawn found the pool short, so hits and misses were both
\* counted.
C10_Witness ==
    /\ lastOp.op \in SpawnOps
    /\ performanceStats.poolMisses > 0
    /\ performanceStats.poolHits > 0
    /\ particlePool = <<>>

\* C11: clear() empties the active collection after handing every active
\* particle to the pool, and a second consecutive clear() leaves the
\* active collection empty and the pool as it was.
C11_ClearIdempotent ==
    [][Did({"clear"}) =>
        /\ particles' = <<>>
        /\ Ids(particlePool') = Ids(particlePool) \cup Ids(particles)
        /\ Len(particlePool') = Len(particlePool) + Len(particles)
        /\ lastOp.op = "clear" =>
              /\ particles = <<>>
              /\ particlePool' = particlePool]_vars

\* C11 witness: a spawn, a clear that pooled the spawned particles, and a
\* second clear of the empty system.
C11_Witness ==
    /\ lastOp.op = "clear"
    /\ lastOp.active = 0
    /\ calls = 3
    /\ performanceStats.particleCreationCount > 0
    /\ performanceStats.frameCount = 0
    /\ Len(particlePool) = poolSize

\* The particles of ps that an update by deltaTime leaves alive.
Survivors(ps, deltaTime) ==
    {ps[i].id : i \in {j \in 1..Len(ps) : ps[j].life - deltaTime > 0}}

\* C14: an update in which the governor changes maxParticles removes only
\* the particles that died in it (they go to the pool); every surviving
\* particle stays active even above the new limit, and the limit binds
\* only the spawns made afterwards, which never grow the collection
\* beyond it.
C14_GovernorDoesNotCull ==
    /\ [][Did({"update"}) /\ maxParticles' # maxParticles =>
            /\ Ids(particles') = Survivors(particles, lastOp'.arg)
            /\ Len(particles') = Cardinality(Ids(particles'))
            /\ Ids(particlePool') =
                  Ids(particlePool)
                     \cup (Ids(particles) \ Survivors(particles, lastOp'.arg))
          ]_vars
    /\ [][Did(SpawnOps) =>
            Len(particles') <= Max(Len(particles), maxParticles)]_vars

\* C14 witness: the governor lowered the limit below the number of
\* particles that are still active after the update.
C14_Witness ==
    /\ lastOp.op = "update"
    /\ maxParticles < lastOp.limit
    /\ Len(particles) > maxParticles

\* The positions of ps that hold a particle which is not confetti.
NonConfetti(ps) == {i \in 1..Len(ps) : ps[i].type # "confetti"}

\* C19: the confetti cleanup removes exactly the confetti particles: no
\* confetti is left, and the particles of the other kinds are all still
\* there, the same objects with the same values in the same order.
C19_CleanupRemovesOnlyConfetti ==
    [][Did({"confettiCleanup"}) =>
        /\ \A k \in 1..Len(particles') : particles'[k].type # "confetti"
        /\ Len(particles') = Cardinality(NonConfetti(particles))
        /\ \A i \in NonConfetti(particles) :
              particles'[Cardinality({j \in NonConfetti(particles) : j <= i})]
                 = particles[i]]_vars

\* C19 witness: the cleanup removed confetti from a collection that also
\* held particles of another kind.
C19_Witness ==
    /\ lastOp.op = "confettiCleanup"
    /\ Len(particles) > 0
    /\ Len(particles) < lastOp.active

\* The step is an update call that finds at least 1000 ms elapsed since
\* the previous checkpoint.
CheckpointStep ==
    /\ lastOp'.op = "update"
    /\ now - performanceStats.lastFPSCheck >= 1000

\* C12: at a governor checkpoint maxParticles becomes max(100, it - 20)
\* when currentFPS < 45, min(200, it + 10) when currentFPS > 55 and it is
\* below 200, and stays as it is otherwise; no other step changes it.
C12_GovernorRule ==
    [][IF CheckpointStep
       THEN maxParticles' =
               IF performanceStats'.currentFPS < 45
               THEN Max(100, maxParticles - 20)
               ELSE IF performanceStats'.currentFPS > 55 /\ maxParticles < 200
                    THEN Min(200, maxParticles + 10)
                    ELSE maxParticles
       ELSE maxParticles' = maxParticles]_vars

\* C12 witness: a checkpoint with more than 55 frames raised a limit that
\* an earlier checkpoint had lowered.
C12_Witness ==
    /\ lastOp.op = "update"
    /\ performanceStats.frameCount = 0
    /\ performanceStats.currentFPS > 55
    /\ lastOp.limit < 200
    /\ maxParticles = lastOp.limit + 10

\* C13: maxParticles stays within 100..200 whatever frame rates the
\* governor measures.
C13_LimitWithinBounds == maxParticles >= 100 /\ maxParticles <= 200

\* C13 witness: a checkpoint with fewer than 45 frames found the limit at
\* the floor and left it there.
C13_Witness ==
    /\ lastOp.op = "update"
    /\ performanceStats.frameCount = 0
    /\ performanceStats.currentFPS < 45
    /\ lastOp.limit = 100
    /\ maxParticles = 100

\* C15: every update counts one frame; an update is a checkpoint exactly
\* when at least 1000 ms have passed since the previous checkpoint, and
\* then currentFPS becomes the number of updates counted since that
\* checkpoint (this one included), the frame counter returns to 0 and
\* the checkpoint time becomes the current time; between checkpoints
\* currentFPS does not change.
C15_FrameCounter ==
    [][IF lastOp'.op = "update"
       THEN IF now - performanceStats.lastFPSCheck >= 1000
            THEN /\ performanceStats'.currentFPS
                       = performanceStats.frameCount + 1
                 /\ performanceStats'.frameCount = 0
                 /\ performanceStats'.lastFPSCheck = now
            ELSE /\ performanceStats'.frameCount
                       = performanceStats.frameCount + 1
                 /\ performanceStats'.currentFPS = performanceStats.currentFPS
                 /\ performanceStats'.lastFPSCheck
                       = performanceStats.lastFPSCheck
       ELSE performanceStats' = performanceStats]_vars

\* C15 witness: a checkpoint taken 1500 ms after the previous one, 56
\* updates having been counted.
C15_Witness ==
    /\ lastOp.op = "update"
    /\ performanceStats.frameCount = 0
    /\ performanceStats.currentFPS = 56
    /\ performanceStats.lastFPSCheck = 1500
    /\ now = 1500

\* What getHighScore() returns in the current state.
StoredHighScore == getHighScore(localStorage).value

\* The largest of a non-empty set of integers.
SetMax(S) == CHOOSE m \in S : \A x \in S : x <= m

\* C20: with the store available, the stored high score never decreases
\* and after every saveHighScore call equals the largest score submitted
\* so far, or 0 when none is larger.
C20_HighScoreMonotonic ==
    /\ [](StoredHighScore = SetMax(submitted \cup {0}))
    /\ [][StoredHighScore' >= StoredHighScore]_vars

\* C20 witness: a score below the stored high score was submitted and the
\* high score stayed.
C20_Witness ==
    /\ lastOp.op = "saveHighScore"
    /\ lastOp.arg > 0
    /\ lastOp.arg < StoredHighScore
    /\ Cardinality(submitted) >= 2

\* C16: once a celebration has lasted 3000 ms, with the loop turning, it
\* ends: the celebration is no longer active and no confetti particle is
\* active.
C16_CelebrationEnds ==
    (confettiCelebration.active
        /\ now - confettiCelebration.startTime >= 3000)
    ~> (~confettiCelebration.active
        /\ \A i \in 1..Len(particles) : particles[i].type # "confetti")

\* The step ends a session: the goal is reached or the last life is lost.
SessionEnds ==
    \/ ~gameOver /\ gameOver'
    \/ ~levelComplete /\ levelComplete'

\* C17: when a session ends, a celebration is triggered if and only if the
\* final score exceeds the high score the game held, whatever the state of
\* the store.
C17_CelebrationIffHighScore ==
    [][SessionEnds =>
        (confettiCelebration'.active <=> score' > highScore)]_vars

\* C18: when triggerConfettiCelebration has returned and no timer callback
\* has run since, the celebration is active and at least one confetti
\* particle is active.
C18_ConfettiOnTrigger ==
    [][~confettiCelebration.active /\ confettiCelebration'.active =>
        \E i \in 1..Len(particles') : particles'[i].type = "confetti"]_vars

(***************************************************************************)
(* ScorePersistence: round trip, unavailable store, corrupted data.        *)
(***************************************************************************)
\* C21: with local storage available, saveScore(s) returns true, a
\* getCurrentScore() made next returns s, and the high score read from the
\* store is the same before and after the call.
C21_SaveScoreRoundTrip ==
    [][(lastOp'.op = "saveScore" /\ localStorage.available) =>
          /\ lastOp'.returned = TRUE
          /\ getCurrentScore(localStorage').value = Num(lastOp'.arg)
          /\ getHighScore(localStorage').value
                = getHighScore(localStorage).value]_vars

\* saveScore(1000) has returned true over stored score data whose high
\* score is 500: the current score reads 1000, the high score still 500.
C21_Witness ==
    /\ lastOp.op = "saveScore"
    /\ lastOp.arg = 1000
    /\ lastOp.returned = TRUE
    /\ getCurrentScore(localStorage).value = Num(1000)
    /\ getHighScore(localStorage).value = 500
    /\ getGamesPlayed(localStorage).value = 3

\* C22: while local storage is unavailable, saveScore and saveHighScore
\* return false and getHighScore, getCurrentScore and getGamesPlayed return
\* 0; every operation returns a value.
C22_UnavailableStoreDefaults ==
    (~localStorage.available /\ lastOp.op \notin {"constructor", "tampered"}) =>
        /\ lastOp.op \in {"saveScore", "saveHighScore"}
              => lastOp.returned = FALSE
        /\ lastOp.op \in {"getHighScore", "getGamesPlayed"}
              => lastOp.returned = 0
        /\ lastOp.op = "getCurrentScore" => lastOp.returned = Num(0)

\* saveHighScore(1000) has returned false on an unavailable store behind
\* which score data with high score 500 lies.
C22_Witness ==
    /\ ~localStorage.available
    /\ localStorage.item = <<ScoreDataText>>
    /\ lastOp.op = "saveHighScore"
    /\ lastOp.arg = 1000
    /\ lastOp.returned = FALSE
    /\ calls = MaxStoreCalls

\* The stored text is not valid score data: it is not JSON, or not an
\* object, or an object whose highScore or gamesPlayed is not a number.
Corrupted(ls) ==
    /\ ls.item # <<>>
    /\ \/ ls.item[1].shape # "object"
       \/ TypeOf(ls.item[1].value.highScore) # "number"
       \/ TypeOf(ls.item[1].value.gamesPlayed) # "number"

Reads == {"getHighScore", "getCurrentScore", "getGamesPlayed"}

\* The read that has just been made returned the default 0, and every
\* saveScore(s) made next succeeds and round-trips s.
ReadRecovers ==
    /\ lastOp'.returned = IF lastOp'.op = "getCurrentScore" THEN Num(0) ELSE 0
    /\ \A s \in Scores :
          \E saved \in {saveScore(localStorage', s, now)} :
              /\ saved.ok
              /\ getCurrentScore(saved.ls).value = Num(s)
              /\ getHighScore(saved.ls).value = 0

\* C23 as stated: reading corrupted data from a working store yields the
\* defaults and removes the entry, and a saveScore made next round-trips.
C23_CorruptedDataRemoved ==
    [][(/\ lastOp'.op \in Reads
        /\ localStorage.available
        /\ Corrupted(localStorage)) =>
          /\ ReadRecovers
          /\ localStorage'.item = <<>>]_vars

\* C23, amended: reading corrupted data from a working store yields the
\* defaults and a saveScore made next round-trips; the entry is removed
\* unless it is the empty string, which is read as an absent entry and
\* stays in the store.
C23_CorruptedDataRecovers ==
    [][(/\ lastOp'.op \in Reads
        /\ localStorage.available
        /\ Corrupted(localStorage)) =>
          /\ ReadRecovers
          /\ localStorage'.item =
                IF localStorage.item[1].shape = "empty"
                THEN localStorage.item ELSE <<>>]_vars

\* getHighScore has returned 0 over an object whose highScore is a string,
\* and the entry is gone.
C23_Witness ==
    /\ lastOp.op = "getHighScore"
    /\ lastOp.found = <<WrongShapeText>>
    /\ lastOp.returned = 0
    /\ localStorage = EmptyStorage

(***************************************************************************)
(* AssetManager and the loading of the logo.                               *)
(***************************************************************************)
\* C24: when an image load fails and a fallback renderer was supplied, the
\* promise resolves with the fallback asset, and isLoaded(key) is true,
\* hasError(key) is true and isLoading(key) is false; when none was
\* supplied, the promise rejects, isLoaded(key) is not true (it is false or
\* undefined) and hasError(key) is true.
C24_LoadFailure ==
    lastOp.op = "onerror" =>
        IF lastOp.fallback
        THEN /\ lastOp.outcome = "resolved"
             /\ lastOp.value = "fallback"
             /\ isLoaded(Assets, lastOp.arg) = Bool(TRUE)
             /\ hasError(Assets, lastOp.arg)
             /\ ~isLoading(Assets, lastOp.arg)
        ELSE /\ lastOp.outcome = "rejected"
             /\ isLoaded(Assets, lastOp.arg) # Bool(TRUE)
             /\ hasError(Assets, lastOp.arg)

\* C25: whether the load of the logo succeeds or fails, the load settles,
\* assetsLoaded becomes true and the game loop is started.
C25_GameStartsWithoutLogo ==
    <>(/\ assetsLoaded
       /\ loopStarted
       /\ \A i \in 1..Len(loads) : loads[i].caller = "caller")

\* The logo has failed to load: the fallback is stored, assetsLoaded is
\* true and the loop runs.
C25_Witness ==
    /\ lastOp.op = "onerror"
    /\ lastOp.arg = "kiroLogo"
    /\ images["kiroLogo"] = "fallback"
    /\ loadingStates["kiroLogo"] = "error"
    /\ assetsLoaded
    /\ loopStarted

(***************************************************************************)
(* The trail of the moving player and the sparkles of the obstacle areas.  *)
(***************************************************************************)
\* The particles a step created.
Created == performanceStats'.particleCreationCount
              - performanceStats.particleCreationCount

\* The step is a frame of play.
FramePlayed == lastOp'.op \in {"frame", "restart"}
                  /\ debugFrameCount' = debugFrameCount + 1

Room == Max(0, maxParticles - Len(particles))

\* A component of the velocity is above 0.5 in absolute value.
AboveThreshold(velocity) == Abs(velocity[1]) > 50 \/ Abs(velocity[2]) > 50

Bursts == {name \in AreaNames :
              /\ name \in playerInObstacleAreas'
              /\ sparkleTimers'[name] = <<0>>}

\* C27: in a frame of play sparkles are requested for an area exactly when
\* the frame is the 8th, 16th, ... consecutive frame the player has spent
\* inside that area, three of them; no sparkle is requested for an area
\* the player is outside of.
C27_SparklesEveryEighthFrame ==
    [][FramePlayed =>
          /\ \A name \in AreaNames :
                name \in Bursts <=>
                    /\ framesInside'[name] > 0
                    /\ framesInside'[name] % SparkleFrames = 0
          /\ Created = SparklesPerBurst * Cardinality(Bursts)
          /\ \A name \in AreaNames :
                framesInside'[name] = 0
                    => name \notin playerInObstacleAreas']_vars

\* C28: every dead particle the system holds, active or pooled, has alpha
\* 0; the pooled ones are those constructed with zero life or returned
\* to the pool.
C28_DeadParticlesTransparent ==
    /\ \A i \in 1..Len(particles) :
          isDead(particles[i]) => particles[i].alpha = 0
    /\ \A i \in 1..Len(particlePool) :
          isDead(particlePool[i]) => particlePool[i].alpha = 0

\* The operations of ParticleSystem that game code calls.
ParticleSystemOperations ==
    {"createTrailParticle", "createExplosionParticles",
     "createSparkleParticles", "createConfettiParticles", "update", "clear",
     "optimizePerformance"}

\* C29: a step that changes the active collection or the pool is a call of
\* one of the particle system's own operations; no step of another
\* component assigns to either of them.
C29_OnlySystemMutates ==
    [][(particles' # particles \/ particlePool' # particlePool)
          => lastOp'.op \in ParticleSystemOperations]_vars

\* The ids of a sequence of particles, in its order.
IdSeq(ps) == [i \in 1..Len(ps) |-> ps[i].id]

\* C30: after update() the active collection holds the surviving particles
\* in the relative order they had before the call.
C30_CleanupKeepsOrder ==
    [][Did({"update"}) =>
          IdSeq(particles') =
              SelectSeq(IdSeq(particles),
                        LAMBDA id : id \in Ids(particles'))]_vars

\* C30 witness: an update removed dead particles from between survivors:
\* several particles survive and two neighbours among them were not
\* neighbours when they were spawned.
C30_Witness ==
    /\ lastOp.op = "update"
    /\ Len(particles) >= 3
    /\ Len(particles) < lastOp.active
    /\ \E i \in 1..(Len(particles) - 1) :
          Abs(particles[i + 1].id - particles[i].id) > 1

\* C31: optimizePerformance() changes state only when the active
\* collection holds more than 0.8 * maxParticles particles; then it removes
\* floor(0.2 * size) particles from the front of the collection, appends
\* them to the pool and keeps the others in their order; otherwise it
\* changes nothing.  The limit and the statistics stay as they are.
C31_OptimizeEvictsOldest ==
    [][Did({"optimizePerformance"}) =>
          /\ maxParticles' = maxParticles
          /\ performanceStats' = performanceStats
          /\ IF Len(particles) * 10 > maxParticles * 8
             THEN \E n \in {(Len(particles) * 2) \div 10} :
                     /\ particles' = SubSeq(particles, n + 1, Len(particles))
                     /\ IdSeq(particlePool') =
                           IdSeq(particlePool)
                              \o IdSeq(SubSeq(particles, 1, n))
             ELSE /\ particles' = particles
                  /\ particlePool' = particlePool]_vars

\* C31 witness: an optimizePerformance() call has evicted particles and
\* left others active.
C31_Witness ==
    /\ lastOp.op = "optimizePerformance"
    /\ Len(particles) > 0
    /\ Len(particles) < lastOp.active
    /\ Len(particlePool) = lastOp.pooled + (lastOp.active - Len(particles))

\* The explosion particles created in the frame just played: they have
\* aged by the one update of the frame.
NewExplosions ==
    {i \in 1..Len(particles') :
        /\ particles'[i].type = "explosion"
        /\ particles'[i].life = particles'[i].maxLife - FrameStep}

\* C32: while the player stays in contact with a platform over
\* consecutive frames, explosion particles are not spawned on every frame:
\* a frame that begins with the player on the platform it landed on in
\* the frame before, and ends with the player on it again, spawns none.
C32_NoSpamWhileResting ==
    [][(FramePlayed /\ player.onGround /\ player'.onGround
           /\ player'.position = player.position)
          => NewExplosions = {}]_vars

\* The step is a turn of the loop in which restart() is called.
Restarted ==
    /\ lastOp'.op = "frame"
    /\ lastOp'.arg = 1
    /\ gameOver \/ levelComplete

\* C33: restart() is performed only in a turn of the loop that finds the
\* session ended and R down, and right after it score is 0, lives is 5,
\* gameOver and levelComplete are false, no particle is active and the
\* celebration is not active.  A turn without restart never takes the
\* score back or the lives up.
C33_RestartResets ==
    [][lastOp'.op = "frame" =>
          IF Restarted
          THEN /\ score' = 0
               /\ lives' = 5
               /\ ~gameOver'
               /\ ~levelComplete'
               /\ Len(particles') = 0
               /\ ~confettiCelebration'.active
          ELSE /\ score' >= score
               /\ lives' <= lives
               /\ (gameOver \/ levelComplete) =>
                     /\ gameOver' = gameOver
                     /\ levelComplete' = levelComplete
                     /\ particles' = particles
                     /\ confettiCelebration' = confettiCelebration]_vars

\* C33 witness: a restart has just ended a celebration with confetti in
\* the air, and an earlier turn with R down during play has restarted
\* nothing (the frame counter never goes back).
C33_Witness ==
    /\ lastOp.op = "frame"
    /\ lastOp.arg = 1
    /\ lastOp.active > 0
    /\ Len(particles) = 0
    /\ score = 0
    /\ lives = 5
    /\ ~gameOver
    /\ ~levelComplete
    /\ ~confettiCelebration.active
    /\ debugFrameCount >= 2

C35_OneCameraTransform ==
    lastOp.op = "draw" /\ drawn # <<>> =>
        /\ lastOp.render.worldUnder = <<0 - camera[1], 0 - camera[2]>>
        /\ lastOp.render.particlesUnder = lastOp.render.worldUnder
        /\ lastOp.render.depth = 0

StoredGamesPlayed == getGamesPlayed(localStorage).value

\* C36: with the store available, a step that ends a session (the goal is
\* reached or the last life is lost) increases the stored gamesPlayed by
\* exactly one, whether or not the score is a new high score.
C36_OneGamePerSession ==
    [][SessionEnds /\ localStorage.available =>
        StoredGamesPlayed' = StoredGamesPlayed + 1]_vars

\* C37: in every state lives >= 0, gameOver is true exactly when lives is
\* 0, and gameOver and levelComplete are never both true.
C37_LivesAndFlags ==
    /\ lives >= 0
    /\ gameOver <=> lives = 0
    /\ ~(gameOver /\ levelComplete)

\* C37 witness: the game is over by the fall that took the last life,
\* after the power-up had given a sixth life.
C37_Witness ==
    /\ gameOver
    /\ lives = 0
    /\ lifeCollected
    /\ lastOp.op = "frame"
    /\ "fall" \in lastOp.events

\* The number of active confetti particles.
ActiveConfetti(ps) ==
    Cardinality({i \in 1..Len(ps) : ps[i].type = "confetti"})

\* C38: a wave timer never spawns confetti once the celebration that set
\* it is over: the timer whose callback adds confetti was set by the
\* running celebration, so it is not due before that celebration started.
C38_NoWaveAfterCelebration ==
    [][lastOp'.op = "timer"
         /\ ActiveConfetti(particles') > ActiveConfetti(particles) =>
            timers[NextTimer(timers)].due >= confettiCelebration.startTime]_vars

\* C39: when from some point on every checkpoint measures fewer than 45
\* frames, maxParticles eventually is 100 and stays 100; when from some
\* point on every checkpoint measures more than 55 frames, maxParticles
\* eventually is 200 and stays 200.
C39_GovernorConverges ==
    /\ <>[](performanceStats.currentFPS < 45) => <>[](maxParticles = 100)
    /\ <>[](performanceStats.currentFPS > 55) => <>[](maxParticles = 200)

\* C39 witness: a run of low checkpoints has brought the limit from 200
\* down to the floor, the last one from 120.
C39_Witness ==
    /\ lastOp.op = "update"
    /\ performanceStats.frameCount = 0
    /\ performanceStats.currentFPS < 45
    /\ lastOp.limit = 120
    /\ maxParticles = 100

\* C40: the ParticleSystem of test/game-classes.js behaves as the one of
\* game.js: the methods that change the collection, the pool and the limit
\* are the same statements, and render paints the same particles in the
\* same order.
C40_TestCopyDrawsTheSame ==
    lastOp.op = "render" => drawn = TestRenderDraws(particles)

====
